---- MODULE Spec2Model ----
(***************************************************************************)
(* The session-aware request router of browser-agent-extension:            *)
(*   helpers (mcp-server/src/index.ts)  --unix socket-->                   *)
(*   daemon  (mcp-server/src/daemon.ts) --WebSocket-->  extension.         *)
(*                                                                         *)
(* The daemon is a single-threaded event loop: every action below is one   *)
(* event callback of daemon.ts run to completion, including the promise    *)
(* continuations (microtasks) it schedules.  The local stream socket is    *)
(* reliable and ordered, so a line written by a helper is handled by the   *)
(* daemon in the step that writes it.                                      *)
(***************************************************************************)
EXTENDS Integers, Sequences, FiniteSets, TLC

\* ---------------------------------------------------------------- bounds
NumConns == 3        \* helper processes (one daemon connection each)
NumWs == 2           \* inbound extension WebSockets over the daemon's life
MaxCalls == 3        \* REQUEST lines handled by the daemon
MaxEvents == 9       \* events (callbacks run) in one behaviour
MaxStatus == 1       \* STATUS lines, and calls of the status tool
NumSessions == 2     \* sessions the side panel hears of
MaxFrames == 2       \* REQUEST frames the side panel receives
MaxChunk == 2        \* units in one chunk a helper socket delivers
NumTabIds == 2       \* tab ids an active tab is drawn from
NumLinked == 1       \* helpers of the daemon the side panel is connected to
MaxStream == 4       \* units all helper sockets deliver in one behaviour

\* daemon.ts:29 (100 in the source; scaled so that the cap is reached)
MAX_SESSIONS == 2

\* sidepanel.ts:9
MAX_RETRIES == 1

\* daemon.ts:30 (1024 * 1024 in the source; scaled so that the cap is reached)
MAX_BUFFER_SIZE == 3

Null == 0
Conns == 1..NumConns
WsIds == 1..NumWs

VARIABLES
    \* ---- daemon.ts module state
    phase,                 \* "running" | "stopping" (shutdown() ran) | "exited"
    sessions,              \* Map sessionId -> Session (socket)
    pendingRequests,       \* Map requestId -> PendingRequest, in insertion order
    extensionConnections,  \* Map sessionId -> WebSocket (never populated)
    sharedExtensionWs,     \* WebSocket | null
    idleTimer,             \* TRUE while the idle timeout is armed
    sessionCounter,        \* session ids handed out so far (ids are fresh)
    resources,             \* wsServer, unixServer listening; socket and PID file exist
    shutdownLog,           \* what the daemon logged as the reason of its shutdown
    \* ---- sockets as the daemon sees them
    conn,                  \* helper socket: "idle" | "open" | "ended" | "closed"
    wsState,               \* extension ws: "none" | "open" | "closing" | "closed"
    \* ---- handleRequest invocations and what was written where
    calls,                 \* one record per REQUEST line handled
    clientOut,             \* per helper socket: the messages written to it
    wsSent,                \* per extension ws: the frames sent on it
    \* ---- index.ts module state of each helper
    daemonSocket,          \* TRUE while the helper holds its daemon socket
    sessionId,             \* the helper's sessionId, Null before REGISTER_OK
    useDaemon,             \* the helper routes tool calls through the daemon
    requestIdCounter,      \* the helper's id counter
    helperPending,         \* the helper's pendingRequests: ids awaiting a RESPONSE
    mcpOut,                \* the tool results the helper returned to its agent
    exited,                \* the helper process has exited
    \* ---- the length of the behaviour so far
    events,
    \* ---- helper startup (index.ts main, connectToDaemon) and the files and
    \* ---- ports the processes share
    startup,               \* where each helper is in main()
    daemonLock,            \* the helper whose lock file exists at DAEMON_LOCK_PATH
    daemonProc,            \* the daemon helper h spawned: "none" | "starting" | "listening" | "exited"
    socketPath,            \* the daemon whose socket file is at DAEMON_SOCKET_PATH
    wsPort,                \* the process listening on WS_PORT
    wssInstance,           \* the helper's own WebSocket server is listening
    attached,              \* the daemon the helper's socket is connected to
    registered,            \* per daemon: the helpers in its session table
    spawnCmd,              \* per helper: the command its spawnDaemon ran, cmd "" if none
    \* ---- sidepanel.ts module state and the browser's tabs
    panelWs,               \* ws: "connecting" | "open" | "disconnecting" | "closed"
    retryCount,            \* retryCount
    reconnectTimer,        \* TRUE while the reconnect timeout is armed
    sessionBindings,       \* Map sessionId -> SessionBinding object, in insertion order
    bindingObjs,           \* the SessionBinding objects created so far
    tabs,                  \* the open tabs
    tabCounter,            \* tabs opened so far (tab ids are fresh)
    removedEvents,         \* closed tabs whose onRemoved event is not yet delivered
    observedClosed,        \* tabs whose onRemoved event the panel has handled
    reqs,                  \* one record per REQUEST frame: its onmessage handler
    cleanups,              \* one record per cleanupSession(s, true) that has to await
    startSeen,             \* sessions whose SESSION_START frame was received
    endSeen,               \* sessions whose SESSION_END frame was received
    panelSent,             \* the frames the panel sent on the current ws
    \* ---- the 'data' handler of handleClientConnection
    buffer,                \* per helper socket: the closure variable buffer
    received,              \* per helper socket: everything the socket delivered so far
    peak,                  \* per helper socket: the longest buffer the size check saw
    \* ---- session-binding.ts: one call of pickTabIdForNewSession
    activeTab,             \* the argument: the active tab, if one is given
    picked                 \* the result: a tab id, Null, or Unpicked before the call

daemonVars == <<phase, sessions, pendingRequests, extensionConnections,
                sharedExtensionWs, idleTimer, sessionCounter, resources, shutdownLog>>
socketVars == <<conn, wsState>>
logVars == <<calls, clientOut, wsSent>>
helperVars == <<daemonSocket, sessionId, useDaemon, requestIdCounter,
                helperPending, mcpOut, exited>>
startVars == <<startup, daemonLock, daemonProc, socketPath, wsPort, wssInstance,
               attached, registered, spawnCmd>>
panelVars == <<panelWs, retryCount, reconnectTimer, sessionBindings, bindingObjs, tabs,
               tabCounter, removedEvents, observedClosed, reqs, cleanups, startSeen, endSeen,
               panelSent>>
dataVars == <<buffer, received, peak>>
pickVars == <<activeTab, picked>>
routerVars == <<daemonVars, socketVars, logVars, helperVars, events, dataVars, pickVars>>
vars == <<routerVars, startVars, panelVars>>

\* ------------------------------------------------------------- messages
\* A line on the helper socket.  payloadOf names the REQUEST frame whose
\* execution by the extension produced the data or error text carried.
Message(type, id, sid, success, payloadOf, error) ==
    [type |-> type, id |-> id, sessionId |-> sid, success |-> success,
     payloadOf |-> payloadOf, error |-> error]

\* A frame on the extension WebSocket.
Frame(type, id, sid, call) ==
    [type |-> type, id |-> id, sessionId |-> sid, call |-> call]

\* ------------------------------------------------- the pending table
PendingIndex(p, id) ==
    IF \E i \in 1..Len(p) : p[i].id = id
    THEN CHOOSE i \in 1..Len(p) : p[i].id = id
    ELSE 0

PendingHas(p, id) == PendingIndex(p, id) # 0

PendingGet(p, id) == p[PendingIndex(p, id)]

\* Map.set: a new key is appended, an existing key is overwritten in place.
PendingSet(p, id, entry) ==
    IF PendingHas(p, id)
    THEN [p EXCEPT ![PendingIndex(p, id)] = entry]
    ELSE Append(p, entry)

\* Map.delete
PendingDelete(p, id) == SelectSeq(p, LAMBDA e : e.id # id)

\* The entries the termination loops reject and delete: those of session sid.
PendingOfSession(p, sid) == SelectSeq(p, LAMBDA e : e.sessionId = sid)

PendingNotOfSession_Clear(p, sid) == <<>>

PendingNotOfSession(p, sid) == SelectSeq(p, LAMBDA e : e.sessionId # sid)

\* --------------------------------------------------- extension sockets
WsIsOpen(w) == w # Null /\ wsState[w] = "open"

isExtensionConnected ==
    \/ WsIsOpen(sharedExtensionWs)
    \/ \E s \in DOMAIN extensionConnections : WsIsOpen(extensionConnections[s])

\* sendToExtension, lines 225-230: the session's own ws, else the shared one
PickWs(sid) ==
    LET own == IF sid \in DOMAIN extensionConnections
               THEN extensionConnections[sid] ELSE Null
    IN IF ~WsIsOpen(own) THEN sharedExtensionWs ELSE own

\* sendToExtension, line 232: the request is sent only on an open ws
WsUsable_NoStateCheck(w) == w # Null

WsUsable(w) == WsIsOpen(w)

\* ------------------------------------------------------ helper sockets
\* sendToClient: socket.write succeeds only before end() and close
sendToClient(out, cn, c, msg) ==
    IF cn[c] = "open" THEN [out EXCEPT ![c] = Append(@, msg)] ELSE out

\* The text of the error sendToExtension of index.ts throws when it has no
\* direct extension client (index.ts 413-418).
NotConnectedText ==
    "Browser extension not connected. Please ask the user to: 1) Open Chrome browser, 2) Click the Browser Agent extension icon, 3) Open the Side Panel. You can use browser_get_connection_status to check connection state."

\* A result the MCP request handler returns to the agent; the handler puts
\* "Error: " in front of the text of an error (index.ts 1363-1373).
ToolResult(tool, id, isError, text, payloadOf) ==
    [tool |-> tool, id |-> id, isError |-> isError, text |-> text,
     payloadOf |-> payloadOf, connected |-> FALSE, mode |-> "", sessionId |-> Null]

\* A request of helper c made through the daemon has failed (index.ts
\* 404-409): sendToExtension leaves daemon mode and falls through to the
\* direct connection, which a helper started in daemon mode does not have, so
\* the tool call ends with the error thrown there (index.ts 1363-1373).
DaemonRequestFailed(st, c, id) ==
    [st EXCEPT !.pend[c] = @ \ {id},
               !.use[c] = FALSE,
               !.mcp[c] = Append(@, ToolResult("call", id, TRUE, NotConnectedText, Null))]

\* handleDaemonMessage of index.ts for a line the daemon wrote to socket c:
\* a RESPONSE whose id is pending settles that request; any other line
\* changes nothing here.  A line is read only by a live helper on an open
\* socket.
handleDaemonMessage(st, cn, c, msg) ==
    IF cn[c] = "open" /\ c \notin st.gone
       /\ msg.type = "RESPONSE" /\ msg.id \in st.pend[c]
    THEN IF msg.success
         THEN [st EXCEPT !.pend[c] = @ \ {msg.id},
                         !.mcp[c] = Append(@, ToolResult("call", msg.id, FALSE, "", msg.payloadOf))]
         ELSE DaemonRequestFailed(st, c, msg.id)
    ELSE st

\* The continuation of handleRequest (lines 348-364) once the promise of
\* call k settles: a promise settles once, then one RESPONSE is written to
\* the socket the REQUEST came from.  st = [calls, out, use, pend, mcp, gone];
\* cn is the state of the sockets when the continuation runs.
Settle(st, k, ok, payloadOf, error, cn) ==
    IF st.calls[k].result # "pending" THEN st
    ELSE LET c == st.calls[k].socket
             msg == Message("RESPONSE", st.calls[k].id, st.calls[k].sessionId,
                            ok, payloadOf, error)
             written == [st EXCEPT !.calls[k].result = IF ok THEN "resolved" ELSE "rejected",
                                   !.calls[k].error = error,
                                   !.calls[k].payloadOf = payloadOf,
                                   !.out = sendToClient(st.out, cn, c, msg)]
         IN handleDaemonMessage(written, cn, c, msg)

\* clearTimeout(pending.timeout); pending.reject(new Error(error)) for
\* every entry of the sequence es, in order.
RECURSIVE RejectAll(_, _, _, _)
RejectAll(st, es, error, cn) ==
    IF es = <<>> THEN st
    ELSE LET k == Head(es).call
             cleared == [st EXCEPT !.calls[k].timer = FALSE]
         IN RejectAll(Settle(cleared, k, FALSE, Null, error, cn), Tail(es), error, cn)

Now == [calls |-> calls, out |-> clientOut, use |-> useDaemon,
        pend |-> helperPending, mcp |-> mcpOut, gone |-> {c \in Conns : exited[c]}]

\* The state st becomes the next state of the five variables it stands for.
Becomes(st) ==
    /\ calls' = st.calls
    /\ clientOut' = st.out
    /\ useDaemon' = st.use
    /\ helperPending' = st.pend
    /\ mcpOut' = st.mcp

\* "Clear all pending requests" of the ws 'close' handler (lines 196-201) and
\* of shutdown() (lines 601-606): every entry is rejected, the Map is cleared.
AbortAllPending_KeepEntries(error, cn) ==
    /\ Becomes(RejectAll(Now, pendingRequests, error, cn))
    /\ UNCHANGED pendingRequests

AbortAllPending(error, cn) ==
    /\ Becomes(RejectAll(Now, pendingRequests, error, cn))
    /\ pendingRequests' = <<>>

\* A process that may hold WS_PORT.
NoProcess == [kind |-> "none", id |-> Null]
DaemonProcess(d) == [kind |-> "daemon", id |-> d]
HelperProcess(h) == [kind |-> "helper", id |-> h]

\* -------------------------------------------------------------- Init
InitBase ==
    /\ phase = "running"
    /\ sessions = [s \in {} |-> Null]
    /\ pendingRequests = <<>>
    /\ extensionConnections = [s \in {} |-> Null]
    /\ sharedExtensionWs = Null
    /\ idleTimer = TRUE
    /\ sessionCounter = 0
    /\ resources = [wsServer |-> TRUE, unixServer |-> TRUE,
                    socketFile |-> TRUE, pidFile |-> TRUE]
    /\ shutdownLog = ""
    /\ conn = [c \in Conns |-> "idle"]
    /\ wsState = [w \in WsIds |-> "none"]
    /\ calls = <<>>
    /\ clientOut = [c \in Conns |-> <<>>]
    /\ wsSent = [w \in WsIds |-> <<>>]
    /\ daemonSocket = [c \in Conns |-> FALSE]
    /\ sessionId = [c \in Conns |-> Null]
    /\ useDaemon = [c \in Conns |-> FALSE]
    /\ requestIdCounter = [c \in Conns |-> 0]
    /\ helperPending = [c \in Conns |-> {}]
    /\ mcpOut = [c \in Conns |-> <<>>]
    /\ exited = [c \in Conns |-> FALSE]
    /\ events = 0
    /\ startup = [h \in Conns |-> "start"]
    /\ daemonLock = Null
    /\ daemonProc = [h \in Conns |-> "none"]
    /\ socketPath = Null
    /\ wsPort = NoProcess
    /\ wssInstance = [h \in Conns |-> FALSE]
    /\ attached = [h \in Conns |-> Null]
    /\ registered = [d \in Conns |-> {}]
    /\ spawnCmd = [h \in Conns |-> [cmd |-> "", args |-> <<>>]]
    /\ panelWs = "connecting"
    /\ retryCount = 0
    /\ reconnectTimer = FALSE
    /\ sessionBindings = <<>>
    /\ bindingObjs = <<>>
    /\ tabs = {}
    /\ tabCounter = 0
    /\ removedEvents = {}
    /\ observedClosed = {}
    /\ reqs = <<>>
    /\ cleanups = <<>>
    /\ startSeen = {}
    /\ endSeen = {}
    /\ panelSent = {}
    /\ buffer = [c \in Conns |-> <<>>]
    /\ received = [c \in Conns |-> <<>>]
    /\ peak = [c \in Conns |-> 0]

\* pickTabIdForNewSession has not been called.
Unpicked == 0 - 1

NoUrl == [present |-> FALSE, scheme |-> "", parses |-> FALSE, host |-> "", path |-> ""]

NoTab == [given |-> FALSE, id |-> Null, url |-> NoUrl]

Init == InitBase /\ activeTab = NoTab /\ picked = Unpicked

\* Every event callback of the router is one step of the behaviour; the
\* startup of the helpers is followed separately, in StartSpec, and the side
\* panel in PanelSpec.
Tick ==
    /\ events < MaxEvents
    /\ events' = events + 1
    /\ UNCHANGED <<startVars, panelVars, dataVars, pickVars>>

\* A timer of the daemon fires however many events went before it.
TimerTick ==
    /\ events' = IF events < MaxEvents THEN events + 1 ELSE events
    /\ UNCHANGED <<startVars, panelVars, dataVars, pickVars>>

\* ------------------------------------------------------ helper -> daemon
\* A helper connects (index.ts connectToDaemon, net.createConnection); the
\* daemon's unixServer hands the socket to handleClientConnection.
HelperConnect(c) ==
    /\ Tick
    /\ phase # "exited" /\ resources.unixServer
    /\ conn[c] = "idle"
    /\ IF c = 1 THEN TRUE ELSE conn[c - 1] # "idle"
    /\ conn' = [conn EXCEPT ![c] = "open"]
    /\ daemonSocket' = [daemonSocket EXCEPT ![c] = TRUE]
    /\ UNCHANGED <<daemonVars, wsState, logVars, sessionId, useDaemon, requestIdCounter,
                   helperPending, mcpOut, exited>>

\* resetIdleTimer: the previous timeout is cleared and a new one armed.
resetIdleTimer_NoRearm == UNCHANGED idleTimer

resetIdleTimer == idleTimer' = TRUE

SessionLimitReached_OffByOne == Cardinality(DOMAIN sessions) > MAX_SESSIONS

\* handleRegister, line 272: sessions.size >= MAX_SESSIONS
SessionLimitReached == Cardinality(DOMAIN sessions) >= MAX_SESSIONS

\* handleRegister for a REGISTER line with this id on socket c.  On
\* REGISTER_OK the helper stores the sessionId and main() sets useDaemon.
handleRegister(c, id) ==
    IF SessionLimitReached
    THEN /\ clientOut' = sendToClient(clientOut, conn, c,
                Message("REGISTER_ERROR", id, Null, FALSE, Null, "Maximum session limit"))
         /\ conn' = [conn EXCEPT ![c] = "ended"]
         /\ UNCHANGED <<sessions, sessionCounter, wsSent, idleTimer, sessionId, useDaemon>>
    ELSE LET sid == sessionCounter + 1
         IN /\ sessions' = sessions @@ (sid :> [socket |-> c])
            /\ sessionCounter' = sid
            /\ wsSent' = IF WsIsOpen(sharedExtensionWs)
                         THEN [wsSent EXCEPT ![sharedExtensionWs] =
                                  Append(@, Frame("SESSION_START", Null, sid, Null))]
                         ELSE wsSent
            /\ clientOut' = sendToClient(clientOut, conn, c,
                   Message("REGISTER_OK", id, sid, TRUE, Null, ""))
            /\ resetIdleTimer
            /\ sessionId' = [sessionId EXCEPT ![c] = sid]
            /\ useDaemon' = [useDaemon EXCEPT ![c] = TRUE]
            /\ UNCHANGED conn

\* index.ts 'connect' handler: REGISTER with id reg_<++requestIdCounter>.
HelperRegister(c) ==
    /\ Tick
    /\ phase # "exited"
    /\ conn[c] = "open"
    /\ daemonSocket[c]
    /\ requestIdCounter[c] = 0
    /\ requestIdCounter' = [requestIdCounter EXCEPT ![c] = @ + 1]
    /\ handleRegister(c, requestIdCounter[c] + 1)
    /\ UNCHANGED <<phase, resources, shutdownLog, pendingRequests, extensionConnections, sharedExtensionWs,
                   wsState, calls, daemonSocket, helperPending, mcpOut, exited>>

\* A fresh handleRequest invocation.
NewCall(c, id, sid) ==
    [socket |-> c, id |-> id, sessionId |-> sid, result |-> "pending",
     error |-> "", payloadOf |-> Null, timer |-> FALSE, ws |-> Null,
     answered |-> FALSE]

\* The variant that puts the frame ahead of the frames already queued on the ws.
sendToExtension_FrameFirst(c, id, sid, k) ==
    LET ws == PickWs(sid)
        started == [Now EXCEPT !.calls = Append(calls, NewCall(c, id, sid)),
                               !.pend[c] = @ \cup {id}]
    IN IF ~WsUsable(ws)
       THEN /\ Becomes(Settle(started, k, FALSE, Null, "Browser extension not connected", conn))
            /\ UNCHANGED <<pendingRequests, wsSent>>
       ELSE /\ calls' = Append(calls, [NewCall(c, id, sid) EXCEPT !.timer = TRUE, !.ws = ws])
            /\ pendingRequests' = PendingSet(pendingRequests, id,
                   [id |-> id, sessionId |-> sid, call |-> k])
            /\ wsSent' = [wsSent EXCEPT ![ws] = <<Frame("REQUEST", id, sid, k)>> \o @]
            /\ helperPending' = started.pend
            /\ UNCHANGED <<clientOut, useDaemon, mcpOut>>

\* sendToExtension(sessionId, requestId, action, params) as called by call k
\* of handleRequest: either the promise is rejected at once, or a timeout is
\* armed, the entry is stored under requestId and the REQUEST frame is sent.
sendToExtension(c, id, sid, k) ==
    LET ws == PickWs(sid)
        started == [Now EXCEPT !.calls = Append(calls, NewCall(c, id, sid)),
                               !.pend[c] = @ \cup {id}]
    IN IF ~WsUsable(ws)
       THEN /\ Becomes(Settle(started, k, FALSE, Null, "Browser extension not connected", conn))
            /\ UNCHANGED <<pendingRequests, wsSent>>
       ELSE /\ calls' = Append(calls, [NewCall(c, id, sid) EXCEPT !.timer = TRUE, !.ws = ws])
            /\ pendingRequests' = PendingSet(pendingRequests, id,
                   [id |-> id, sessionId |-> sid, call |-> k])
            /\ wsSent' = [wsSent EXCEPT ![ws] = Append(@, Frame("REQUEST", id, sid, k))]
            /\ helperPending' = started.pend
            /\ UNCHANGED <<clientOut, useDaemon, mcpOut>>

\* handleRequest for a REQUEST line {id, sessionId, action} on socket c.
handleRequest(c, id, sid, action) ==
    LET k == Len(calls) + 1
        started == [Now EXCEPT !.calls = Append(calls, NewCall(c, id, sid)),
                               !.pend[c] = @ \cup {id}]
        refuse(error) ==
            /\ Becomes(Settle(started, k, FALSE, Null, error, conn))
            /\ UNCHANGED <<pendingRequests, wsSent>>
    IN IF sid = Null THEN refuse("Missing sessionId")
       ELSE IF sid \notin DOMAIN sessions THEN refuse("Invalid session")
       ELSE IF action = "" THEN refuse("Missing action")
       ELSE sendToExtension(c, id, sid, k)

\* sendViaDaemon (reached from sendToExtension of index.ts while useDaemon):
\* REQUEST with id req_<++requestIdCounter> and the helper's own sessionId;
\* the id is stored in the helper's pendingRequests before the line is sent.
HelperRequest(c) ==
    /\ Tick
    /\ phase # "exited"
    /\ conn[c] = "open"
    /\ useDaemon[c] /\ daemonSocket[c] /\ sessionId[c] # Null
    /\ Len(calls) < MaxCalls
    /\ requestIdCounter' = [requestIdCounter EXCEPT ![c] = @ + 1]
    /\ handleRequest(c, requestIdCounter[c] + 1, sessionId[c], "action")
    /\ UNCHANGED <<phase, resources, shutdownLog, sessions, extensionConnections, sharedExtensionWs, idleTimer,
                   sessionCounter, socketVars, daemonSocket, sessionId, exited>>

\* The helper's own 30 s timer of sendViaDaemon fires for a request that has
\* no RESPONSE yet; sendToExtension of index.ts then leaves daemon mode.
HelperTimeout(c) ==
    /\ Tick
    /\ ~exited[c]
    /\ \E id \in helperPending[c] :
          LET st == DaemonRequestFailed(Now, c, id)
          IN /\ useDaemon' = st.use
             /\ helperPending' = st.pend
             /\ mcpOut' = st.mcp
    /\ UNCHANGED <<daemonVars, socketVars, logVars, daemonSocket, sessionId, requestIdCounter,
                   exited>>

\* --------------------------------------------------- session termination
\* The body shared by handleDisconnect (lines 410-431) and the socket 'close'
\* handler (lines 497-518) for session sid: delete the session, send
\* SESSION_END on the shared ws if it is open, drop the session's own ws, and
\* reject and delete the pending entries whose sessionId is sid.  left is
\* the state after the leaving helper's own handler.
TerminateSession(sid, error, cn, left) ==
    LET st == RejectAll(left, PendingOfSession(pendingRequests, sid), error, cn)
    IN /\ sessions' = [s \in DOMAIN sessions \ {sid} |-> sessions[s]]
       /\ wsSent' = IF WsIsOpen(sharedExtensionWs)
                    THEN [wsSent EXCEPT ![sharedExtensionWs] =
                             Append(@, Frame("SESSION_END", Null, sid, Null))]
                    ELSE wsSent
       /\ extensionConnections' =
              [s \in DOMAIN extensionConnections \ {sid} |-> extensionConnections[s]]
       /\ pendingRequests' = PendingNotOfSession(pendingRequests, sid)
       /\ Becomes(st)

\* handleDisconnect for a DISCONNECT line {sessionId} on socket c.
handleDisconnect(c, sid, left) ==
    IF sid # Null /\ sid \in DOMAIN sessions
    THEN /\ TerminateSession(sid, "Session disconnected", conn, left)
         /\ resetIdleTimer
    ELSE /\ Becomes(left)
         /\ UNCHANGED <<sessions, wsSent, extensionConnections, pendingRequests, idleTimer>>

\* clearPendingRequests of index.ts followed by process.exit: the helper's
\* table is emptied and the process is gone before any rejection is handled.
ExitsHelper(st, c) ==
    [st EXCEPT !.pend[c] = {}, !.gone = @ \cup {c}]

\* gracefulShutdown of index.ts while useDaemon: disconnectFromDaemon sends
\* DISCONNECT with id disc_<++requestIdCounter>, ends and forgets the socket
\* and leaves daemon mode; then the pending requests are cleared and the
\* process exits.
HelperDisconnect(c) ==
    /\ Tick
    /\ phase # "exited"
    /\ conn[c] = "open"
    /\ ~exited[c]
    /\ useDaemon[c] /\ daemonSocket[c] /\ sessionId[c] # Null
    /\ requestIdCounter' = [requestIdCounter EXCEPT ![c] = @ + 1]
    /\ handleDisconnect(c, sessionId[c], ExitsHelper([Now EXCEPT !.use[c] = FALSE], c))
    /\ daemonSocket' = [daemonSocket EXCEPT ![c] = FALSE]
    /\ sessionId' = [sessionId EXCEPT ![c] = Null]
    /\ exited' = [exited EXCEPT ![c] = TRUE]
    /\ UNCHANGED <<phase, resources, shutdownLog, sharedExtensionWs, sessionCounter, socketVars>>

\* gracefulShutdown of index.ts while useDaemon is false (lines 1224-1226
\* skip disconnectFromDaemon): the pending requests are cleared and the
\* process exits; the daemon sees only the socket close.
HelperExit(c) ==
    /\ Tick
    /\ ~exited[c]
    /\ conn[c] = "open"
    /\ ~useDaemon[c] /\ daemonSocket[c] /\ sessionId[c] # Null
    /\ helperPending' = ExitsHelper(Now, c).pend
    /\ exited' = [exited EXCEPT ![c] = TRUE]
    /\ UNCHANGED <<daemonVars, socketVars, logVars, daemonSocket, sessionId, useDaemon,
                   requestIdCounter, mcpOut>>

\* The session the 'close' handler finds for socket c: the first one in the
\* Map's iteration order (ids are handed out in increasing order).
SessionOfSocket_NotFound(c) == Null

SessionOfSocket(c) ==
    LET owned == {s \in DOMAIN sessions : sessions[s].socket = c}
    IN IF owned = {} THEN Null
       ELSE CHOOSE s \in owned : \A t \in owned : s <= t

\* The requests of helper c, one after the other, fail.
RECURSIVE FailAll(_, _, _)
FailAll(st, c, ids) ==
    IF ids = {} THEN st
    ELSE LET id == CHOOSE i \in ids : \A j \in ids : i <= j
         IN FailAll(DaemonRequestFailed(st, c, id), c, ids \ {id})

\* socket.on('close') of connectToDaemon in index.ts, lines 254-262: a live
\* helper leaves daemon mode and clearPendingRequests rejects every pending
\* request.
HelperSocketClosed(st, c) ==
    IF c \in st.gone THEN st
    ELSE FailAll([st EXCEPT !.use[c] = FALSE], c, st.pend[c])

\* socket.on('close') of handleClientConnection: the helper exited or ended
\* its socket, or the daemon ended it.  The helper's own 'close' handler
\* forgets the socket and the session.
ClientClose(c) ==
    /\ Tick
    /\ phase # "exited"
    /\ conn[c] \in {"open", "ended"}
    /\ conn' = [conn EXCEPT ![c] = "closed"]
    /\ IF SessionOfSocket(c) # Null
       THEN TerminateSession(SessionOfSocket(c), "Client disconnected", conn',
                             HelperSocketClosed(Now, c))
       ELSE /\ Becomes(HelperSocketClosed(Now, c))
            /\ UNCHANGED <<sessions, wsSent, extensionConnections, pendingRequests>>
    /\ resetIdleTimer
    /\ daemonSocket' = [daemonSocket EXCEPT ![c] = FALSE]
    /\ sessionId' = [sessionId EXCEPT ![c] = Null]
    /\ UNCHANGED <<phase, resources, shutdownLog, sharedExtensionWs, sessionCounter, wsState,
                   requestIdCounter, exited>>

\* ------------------------------------------------------ extension uplink
\* wsServer.on('connection'): the ws becomes the shared one only if there is
\* none.
WsConnect(w) ==
    /\ Tick
    /\ phase # "exited" /\ resources.wsServer
    /\ wsState[w] = "none"
    /\ IF w = 1 THEN TRUE ELSE wsState[w - 1] # "none"
    /\ wsState' = [wsState EXCEPT ![w] = "open"]
    /\ sharedExtensionWs' = IF sharedExtensionWs = Null THEN w ELSE sharedExtensionWs
    /\ UNCHANGED <<phase, resources, shutdownLog, sessions, pendingRequests, extensionConnections, idleTimer,
                   sessionCounter, conn, logVars, helperVars>>

\* The peer starts the closing handshake: readyState leaves OPEN before the
\* 'close' event is emitted.
WsBeginClose(w) ==
    /\ Tick
    /\ phase # "exited"
    /\ wsState[w] = "open"
    /\ wsState' = [wsState EXCEPT ![w] = "closing"]
    /\ UNCHANGED <<daemonVars, conn, logVars, helperVars>>

\* ws.on('close'), lines 182-202.
WsClose(w) ==
    /\ Tick
    /\ phase # "exited"
    /\ wsState[w] \in {"open", "closing"}
    /\ wsState' = [wsState EXCEPT ![w] = "closed"]
    /\ extensionConnections' =
           [s \in {t \in DOMAIN extensionConnections : extensionConnections[t] # w}
               |-> extensionConnections[s]]
    /\ sharedExtensionWs' = IF sharedExtensionWs = w THEN Null ELSE sharedExtensionWs
    /\ AbortAllPending("Extension disconnected", conn)
    /\ UNCHANGED <<phase, resources, shutdownLog, sessions, idleTimer, sessionCounter, conn, wsSent,
                   daemonSocket, sessionId, requestIdCounter, exited>>

\* ws.on('message'), lines 153-180, for the RESPONSE the extension produced
\* for the REQUEST frame of call k (sidepanel.ts echoes the frame's id), sent
\* on an open ws w.  ok is payload.success.
ExtRespond(k, w, ok) ==
    /\ Tick
    /\ phase # "exited"
    /\ wsState[w] = "open"
    /\ calls[k].ws # Null
    /\ ~calls[k].answered
    /\ LET id == calls[k].id
           marked == [Now EXCEPT !.calls[k].answered = TRUE]
       IN IF PendingHas(pendingRequests, id)
          THEN LET e == PendingGet(pendingRequests, id)
                   cleared == [marked EXCEPT !.calls[e.call].timer = FALSE]
                   st == Settle(cleared, e.call, ok, k,
                                IF ok THEN "" ELSE "Executor error", conn)
               IN /\ pendingRequests' = PendingDelete(pendingRequests, id)
                  /\ Becomes(st)
          ELSE /\ calls' = marked.calls
               /\ UNCHANGED <<pendingRequests, clientOut, useDaemon, helperPending, mcpOut>>
    /\ UNCHANGED <<phase, resources, shutdownLog, sessions, extensionConnections, sharedExtensionWs, idleTimer,
                   sessionCounter, socketVars, wsSent, daemonSocket, sessionId,
                   requestIdCounter, exited>>

\* The timeout armed by sendToExtension for call k fires (lines 237-240): it
\* deletes whatever entry is stored under the call's requestId and rejects
\* the call's own promise.
Timeout(k) ==
    /\ Tick
    /\ phase # "exited"
    /\ calls[k].timer
    /\ pendingRequests' = PendingDelete(pendingRequests, calls[k].id)
    /\ Becomes(Settle([Now EXCEPT !.calls[k].timer = FALSE], k, FALSE, Null,
                      "Request timeout", conn))
    /\ UNCHANGED <<phase, resources, shutdownLog, sessions, extensionConnections, sharedExtensionWs, idleTimer,
                   sessionCounter, socketVars, wsSent, daemonSocket, sessionId,
                   requestIdCounter, exited>>

\* ------------------------------------------------------------ shutdown
\* shutdown(), lines 593-667.  The pending promises are rejected first, but
\* their continuations run after shutdown() returns, when the session
\* sockets have been ended.
shutdown ==
    LET ended == [c \in Conns |->
                    IF conn[c] = "open" /\ \E s \in DOMAIN sessions : sessions[s].socket = c
                    THEN "ended" ELSE conn[c]]
    IN /\ idleTimer' = FALSE
       /\ AbortAllPending("Daemon shutting down", ended)
       /\ conn' = ended
       /\ sessions' = [s \in {} |-> Null]
       /\ wsState' = [w \in WsIds |->
                        IF wsState[w] = "open"
                           /\ (w = sharedExtensionWs
                               \/ \E s \in DOMAIN extensionConnections :
                                     extensionConnections[s] = w)
                        THEN "closing" ELSE wsState[w]]
       /\ extensionConnections' = [s \in {} |-> Null]
       /\ sharedExtensionWs' = Null
       /\ resources' = [wsServer |-> FALSE, unixServer |-> FALSE,
                        socketFile |-> FALSE, pidFile |-> FALSE]
       /\ phase' = "stopping"
       /\ UNCHANGED <<sessionCounter, wsSent, daemonSocket, sessionId, requestIdCounter, exited>>

\* The idle timeout armed by resetIdleTimer fires (lines 113-118).
IdleFire_NoSessionCheck ==
    /\ TimerTick
    /\ phase = "running"
    /\ idleTimer
    /\ shutdown
    /\ shutdownLog' = "No active sessions for 60s"

IdleFire ==
    /\ TimerTick
    /\ phase = "running"
    /\ idleTimer
    /\ IF DOMAIN sessions = {}
       THEN shutdown /\ shutdownLog' = "No active sessions for 60s"
       ELSE /\ idleTimer' = FALSE
            /\ UNCHANGED <<phase, resources, shutdownLog, sessions, pendingRequests, extensionConnections,
                           sharedExtensionWs, sessionCounter, socketVars, logVars,
                           helperVars>>

\* SIGINT or SIGTERM (runDaemon, lines 683-691).
Signal ==
    /\ Tick
    /\ phase # "exited"
    /\ shutdown
    /\ shutdownLog' = "Received signal"

\* process.exit(0), one second after shutdown().
Exit ==
    /\ TimerTick
    /\ phase = "stopping"
    /\ phase' = "exited"
    /\ UNCHANGED <<resources, shutdownLog, sessions, pendingRequests, extensionConnections, sharedExtensionWs,
                   idleTimer, sessionCounter, socketVars, logVars, helperVars>>

\* ------------------------------------------------------------ status
\* The number of lines of this type written so far.
LinesOfType(type) ==
    Cardinality({<<c, i>> \in Conns \X (1..(MaxEvents + 1)) :
                    i <= Len(clientOut[c]) /\ clientOut[c][i].type = type})

\* handleStatus, lines 389-396, for a STATUS line on socket c.
handleStatus(c, id) ==
    clientOut' = sendToClient(clientOut, conn, c,
        Message("STATUS_OK", id, Null, TRUE, Null, "")
           @@ [extensionConnected |-> isExtensionConnected,
               activeSessions |-> Cardinality(DOMAIN sessions)])

\* A client of the socket sends a STATUS line (the helper of index.ts sends
\* none); it carries no id.
Status(c) ==
    /\ Tick
    /\ phase # "exited"
    /\ conn[c] = "open"
    /\ LinesOfType("STATUS_OK") < MaxStatus
    /\ handleStatus(c, Null)
    /\ UNCHANGED <<daemonVars, conn, wsState, calls, wsSent, helperVars>>

\* The tool results of this kind returned so far.
ResultsOfTool(tool) ==
    Cardinality({<<c, i>> \in Conns \X (1..(MaxEvents + 1)) :
                    i <= Len(mcpOut[c]) /\ mcpOut[c][i].tool = tool})

\* The browser_get_connection_status tool of helper c (index.ts 1303-1330);
\* a helper started in daemon mode has no extension client of its own.
GetConnectionStatus(c) ==
    /\ Tick
    /\ conn[c] # "idle"
    /\ ~exited[c]
    /\ ResultsOfTool("browser_get_connection_status") < MaxStatus
    /\ LET daemonMode == useDaemon[c] /\ daemonSocket[c] /\ sessionId[c] # Null
       IN mcpOut' = [mcpOut EXCEPT ![c] = Append(@,
              [ToolResult("browser_get_connection_status", Null, FALSE, "", Null)
                  EXCEPT !.connected = daemonMode,
                         !.mode = IF daemonMode THEN "daemon" ELSE "unknown",
                         !.sessionId = IF useDaemon[c] THEN sessionId[c] ELSE Null])]
    /\ UNCHANGED <<daemonVars, socketVars, logVars, daemonSocket, sessionId, useDaemon,
                   requestIdCounter, helperPending, exited>>

\* ------------------------------------------------------------- Next
Next ==
    \/ \E c \in Conns : HelperConnect(c)
    \/ \E c \in Conns : HelperRegister(c)
    \/ \E c \in Conns : HelperRequest(c)
    \/ \E c \in Conns : HelperTimeout(c)
    \/ \E c \in Conns : HelperDisconnect(c)
    \/ \E c \in Conns : HelperExit(c)
    \/ \E c \in Conns : ClientClose(c)
    \/ \E w \in WsIds : WsConnect(w)
    \/ \E w \in WsIds : WsBeginClose(w)
    \/ \E w \in WsIds : WsClose(w)
    \/ \E k \in 1..Len(calls), w \in WsIds, ok \in BOOLEAN : ExtRespond(k, w, ok)
    \/ \E k \in 1..Len(calls) : Timeout(k)
    \/ IdleFire
    \/ Signal
    \/ Exit

Spec == Init /\ [][Next]_vars

\* The idle timeout and the exit timeout are timers of the event loop: once
\* armed and not cleared, they fire.
FairSpec == Spec /\ WF_vars(IdleFire) /\ WF_vars(Exit)

\* The router together with the status queries: STATUS lines on the daemon
\* socket and the status tool of the helpers.
StatusNext ==
    \/ Next
    \/ \E c \in Conns : Status(c)
    \/ \E c \in Conns : GetConnectionStatus(c)

StatusSpec == Init /\ [][StatusNext]_vars

\* ------------------------------------------------------- helper startup
\* isDaemonRunning, index.ts 71-93: the socket file exists and a probe
\* connection to it succeeds.
isDaemonRunning == socketPath # Null /\ daemonProc[socketPath] = "listening"

\* connectToDaemon, line 167: the first isDaemonRunning of helper h.
CheckDaemon(h) ==
    /\ startup[h] = "start"
    /\ startup' = [startup EXCEPT ![h] = IF isDaemonRunning THEN "connect" ELSE "absent"]
    /\ UNCHANGED <<routerVars, panelVars, spawnCmd, daemonLock, daemonProc, socketPath, wsPort, wssInstance,
                   attached, registered>>

\* acquireDaemonLock, index.ts 98-110: openSync(DAEMON_LOCK_PATH, 'wx').
acquireDaemonLock(h) == daemonLock = Null /\ daemonLock' = h

\* spawnDaemon, index.ts 126-143: spawn('node', [daemonPath]) with
\* daemonPath = path.join(__dirname, 'daemon.js').
spawnDaemon == [cmd |-> "node", args |-> <<"daemon.js">>]

\* connectToDaemon, lines 170-172: the lock is acquired and spawnDaemon
\* starts a detached daemon process.
SpawnDaemon(h) ==
    /\ startup[h] = "absent"
    /\ acquireDaemonLock(h)
    /\ daemonProc[h] = "none"
    /\ daemonProc' = [daemonProc EXCEPT ![h] = "starting"]
    /\ startup' = [startup EXCEPT ![h] = "spawned"]
    /\ spawnCmd' = [spawnCmd EXCEPT ![h] = spawnDaemon]
    /\ UNCHANGED <<routerVars, panelVars, socketPath, wsPort, wssInstance, attached, registered>>

\* connectToDaemon, lines 187-193: the lock file exists (EEXIST), the helper
\* waits for the daemon of another helper.
LockTaken(h) ==
    /\ startup[h] = "absent"
    /\ daemonLock # Null
    /\ startup' = [startup EXCEPT ![h] = "following"]
    /\ UNCHANGED <<routerVars, panelVars, spawnCmd, daemonLock, daemonProc, socketPath, wsPort, wssInstance,
                   attached, registered>>

\* runDaemon of daemon.ts, lines 672-703, in the process helper d spawned:
\* startUnixServer removes an existing socket file and listens on the path;
\* startWebSocketServer listens on WS_PORT, and if the port is taken its
\* 'error' handler only logs.
RunDaemon(d) ==
    /\ daemonProc[d] = "starting"
    /\ daemonProc' = [daemonProc EXCEPT ![d] = "listening"]
    /\ socketPath' = d
    /\ wsPort' = IF wsPort = NoProcess THEN DaemonProcess(d) ELSE wsPort
    /\ UNCHANGED <<routerVars, panelVars, spawnCmd, startup, daemonLock, wssInstance, attached, registered>>

\* The spawned process ends without listening: spawnDaemon found no daemon
\* script (index.ts 129-132), or the process was not the main module
\* (daemon.ts 705).
DaemonFails(d) ==
    /\ daemonProc[d] = "starting"
    /\ daemonProc' = [daemonProc EXCEPT ![d] = "exited"]
    /\ UNCHANGED <<routerVars, panelVars, spawnCmd, startup, daemonLock, socketPath, wsPort, wssInstance,
                   attached, registered>>

\* shutdown() and process.exit of daemon d (daemon.ts 593-667): its servers
\* close, its sessions are dropped, and the file at SOCKET_PATH is removed
\* whichever daemon created it.
DaemonExits(d) ==
    /\ daemonProc[d] = "listening"
    /\ daemonProc' = [daemonProc EXCEPT ![d] = "exited"]
    /\ socketPath' = Null
    /\ wsPort' = IF wsPort = DaemonProcess(d) THEN NoProcess ELSE wsPort
    /\ registered' = [registered EXCEPT ![d] = {}]
    /\ UNCHANGED <<routerVars, panelVars, spawnCmd, startup, daemonLock, wssInstance, attached>>

\* releaseDaemonLock, index.ts 115-121, by the helper that spawned.
releaseDaemonLock(h) ==
    daemonLock' = IF startup[h] = "spawned" THEN Null ELSE daemonLock

\* waitForDaemon returns true (index.ts 148-159): a poll found the daemon.
WaitSucceeds(h) ==
    /\ startup[h] \in {"spawned", "following"}
    /\ isDaemonRunning
    /\ releaseDaemonLock(h)
    /\ startup' = [startup EXCEPT ![h] = "connect"]
    /\ UNCHANGED <<routerVars, panelVars, spawnCmd, daemonProc, socketPath, wsPort, wssInstance, attached,
                   registered>>

\* waitForDaemon returns false: no poll of the 5 s window found a daemon;
\* connectToDaemon returns false.
WaitTimesOut(h) ==
    /\ startup[h] \in {"spawned", "following"}
    /\ ~isDaemonRunning
    /\ \A d \in Conns : daemonProc[d] # "starting"
    /\ releaseDaemonLock(h)
    /\ startup' = [startup EXCEPT ![h] = "fallback"]
    /\ UNCHANGED <<routerVars, panelVars, spawnCmd, daemonProc, socketPath, wsPort, wssInstance, attached,
                   registered>>

\* net.createConnection(DAEMON_SOCKET_PATH), index.ts 197: 'connect' leads to
\* REGISTER, 'error' resolves false.
ConnectToSocket(h) ==
    /\ startup[h] = "connect"
    /\ IF isDaemonRunning
       THEN /\ attached' = [attached EXCEPT ![h] = socketPath]
            /\ startup' = [startup EXCEPT ![h] = "registering"]
       ELSE /\ startup' = [startup EXCEPT ![h] = "fallback"]
            /\ UNCHANGED attached
    /\ UNCHANGED <<routerVars, panelVars, spawnCmd, daemonLock, daemonProc, socketPath, wsPort, wssInstance,
                   registered>>

\* The daemon the helper is attached to handles its REGISTER (daemon.ts
\* 270-310): REGISTER_OK makes connectToDaemon return true and main() enter
\* daemon mode; REGISTER_ERROR is followed by the end of the socket, and so
\* is the exit of the daemon: the 'close' handler resolves false.
RegisterAtDaemon(h) ==
    /\ startup[h] = "registering"
    /\ LET d == attached[h]
       IN IF daemonProc[d] = "listening" /\ Cardinality(registered[d]) < MAX_SESSIONS
          THEN /\ registered' = [registered EXCEPT ![d] = @ \cup {h}]
               /\ startup' = [startup EXCEPT ![h] = "daemon"]
               /\ UNCHANGED attached
          ELSE /\ attached' = [attached EXCEPT ![h] = Null]
               /\ startup' = [startup EXCEPT ![h] = "fallback"]
               /\ UNCHANGED registered
    /\ UNCHANGED <<routerVars, panelVars, spawnCmd, daemonLock, daemonProc, socketPath, wsPort, wssInstance>>

\* main(), lines 1271-1276: connectToDaemon returned false, the helper's own
\* startWebSocketServer (index.ts 1162-1215) listens on WS_PORT.  The server
\* has no 'error' handler: if the port is taken the 'error' event is
\* unhandled and ends the process.
StartDirect(h) ==
    /\ startup[h] = "fallback"
    /\ IF wsPort = NoProcess
       THEN /\ wsPort' = HelperProcess(h)
            /\ wssInstance' = [wssInstance EXCEPT ![h] = TRUE]
            /\ startup' = [startup EXCEPT ![h] = "direct"]
       ELSE /\ startup' = [startup EXCEPT ![h] = "crashed"]
            /\ UNCHANGED <<wsPort, wssInstance>>
    /\ UNCHANGED <<routerVars, panelVars, spawnCmd, daemonLock, daemonProc, socketPath, attached, registered>>

StartNext ==
    \/ \E h \in Conns : CheckDaemon(h)
    \/ \E h \in Conns : SpawnDaemon(h)
    \/ \E h \in Conns : LockTaken(h)
    \/ \E d \in Conns : RunDaemon(d)
    \/ \E d \in Conns : DaemonFails(d)
    \/ \E d \in Conns : DaemonExits(d)
    \/ \E h \in Conns : WaitSucceeds(h)
    \/ \E h \in Conns : WaitTimesOut(h)
    \/ \E h \in Conns : ConnectToSocket(h)
    \/ \E h \in Conns : RegisterAtDaemon(h)
    \/ \E h \in Conns : StartDirect(h)

StartSpec == Init /\ [][StartNext]_vars

\* ------------------------------------------------------------ side panel
SessionIds == 1..NumSessions

\* sessionBindings.get(s): the position of the entry of session s, 0 if none.
BindingIndex(s) ==
    IF \E i \in 1..Len(sessionBindings) : sessionBindings[i].sessionId = s
    THEN CHOOSE i \in 1..Len(sessionBindings) : sessionBindings[i].sessionId = s
    ELSE 0

HasBinding(s) == BindingIndex(s) # 0

\* The SessionBinding object the map holds for s, and its tabId.
BoundObj(s) == sessionBindings[BindingIndex(s)].obj
BoundTab(s) == bindingObjs[BoundObj(s)].tabId

\* sessionBindings.set(s, o): a Map keeps the position of an existing key.
BindingSet(s, o) ==
    IF HasBinding(s)
    THEN [sessionBindings EXCEPT ![BindingIndex(s)].obj = o]
    ELSE Append(sessionBindings, [sessionId |-> s, obj |-> o])

\* sessionBindings.delete(s)
BindingDelete(s) ==
    SelectSeq(sessionBindings, LAMBDA e : e.sessionId # s)

\* ws.send(frame) behind `ws && ws.readyState === WebSocket.OPEN` or `ws?.`:
\* only an open socket carries the frame.
PanelSend(sent, frame) ==
    IF panelWs = "open" THEN sent \cup {frame} ELSE sent

\* payload is "executor" for whatever the service worker answered.
PanelFrame(type, s, r, payload) == [type |-> type, sessionId |-> s, id |-> r, payload |-> payload]

\* ws.onmessage for a REQUEST frame of session s (lines 471-482), up to the
\* first await of getOrCreateTabForSession (lines 257-288).  explicit is
\* the tabId the request names in its params, Null if none; the handler
\* does not read it.
PanelRequest(s, explicit) ==
    /\ panelWs = "open"
    /\ Len(reqs) < MaxFrames
    /\ s \notin endSeen
    /\ reqs' = Append(reqs,
          [sessionId |-> s, explicit |-> explicit,
           pc |-> IF HasBinding(s) THEN "checking" ELSE "creating",
           obj |-> IF HasBinding(s) THEN BoundObj(s) ELSE Null,
           found |-> IF HasBinding(s) THEN BoundTab(s) ELSE Null,
           foundOpen |-> HasBinding(s) /\ BoundTab(s) \in tabs,
           homeClosed |-> \E i \in 1..Len(bindingObjs) :
                             /\ bindingObjs[i].sessionId = s
                             /\ bindingObjs[i].tabId \notin tabs,
           alone |-> \A q \in 1..Len(reqs) :
                        reqs[q].sessionId = s => reqs[q].pc = "done",
           fresh |-> Null, tab |-> Null, response |-> "none"])
    /\ UNCHANGED <<routerVars, startVars, panelWs, retryCount, reconnectTimer,
                   sessionBindings, bindingObjs, tabs, tabCounter, removedEvents,
                   observedClosed, cleanups, startSeen, endSeen, panelSent>>

\* A binder that binds a new session to a tab that is already open.
TabCreated_ReusingOpenTab(r) ==
    /\ reqs[r].pc = "creating"
    /\ LET t == IF tabs # {} THEN CHOOSE x \in tabs : TRUE ELSE tabCounter + 1
           o == Len(bindingObjs) + 1
           s == reqs[r].sessionId
       IN /\ tabCounter' = IF tabs # {} THEN tabCounter ELSE t
          /\ tabs' = tabs \cup {t}
          /\ bindingObjs' = Append(bindingObjs, [sessionId |-> s, tabId |-> t])
          /\ sessionBindings' = BindingSet(s, o)
          /\ panelSent' = PanelSend(panelSent, PanelFrame("SESSION_START", s, Null, Null))
          /\ reqs' = [reqs EXCEPT ![r].pc = "rendering", ![r].obj = o, ![r].fresh = t]
    /\ UNCHANGED <<routerVars, startVars, panelWs, retryCount, reconnectTimer,
                   removedEvents, observedClosed, cleanups, startSeen, endSeen>>

\* chrome.tabs.create of line 262 resolves: the binding object is created
\* and stored, SESSION_START is sent, renderSessionsList is awaited.
TabCreated(r) ==
    /\ reqs[r].pc = "creating"
    /\ LET t == tabCounter + 1
           o == Len(bindingObjs) + 1
           s == reqs[r].sessionId
       IN /\ tabCounter' = t
          /\ tabs' = tabs \cup {t}
          /\ bindingObjs' = Append(bindingObjs, [sessionId |-> s, tabId |-> t])
          /\ sessionBindings' = BindingSet(s, o)
          /\ panelSent' = PanelSend(panelSent, PanelFrame("SESSION_START", s, Null, Null))
          /\ reqs' = [reqs EXCEPT ![r].pc = "rendering", ![r].obj = o, ![r].fresh = t]
    /\ UNCHANGED <<routerVars, startVars, panelWs, retryCount, reconnectTimer,
                   removedEvents, observedClosed, cleanups, startSeen, endSeen>>

\* chrome.tabs.get of line 288 resolves or rejects.
TabChecked(r) ==
    /\ reqs[r].pc = "checking"
    /\ reqs' = [reqs EXCEPT ![r].pc = IF bindingObjs[reqs[r].obj].tabId \in tabs
                                       THEN "rendering" ELSE "recreating"]
    /\ UNCHANGED <<routerVars, startVars, panelWs, retryCount, reconnectTimer,
                   sessionBindings, bindingObjs, tabs, tabCounter, removedEvents,
                   observedClosed, cleanups, startSeen, endSeen, panelSent>>

\* chrome.tabs.create of line 291 resolves: the object the handler holds gets
\* the new tab, whether or not the map still holds that object.
TabRecreated(r) ==
    /\ reqs[r].pc = "recreating"
    /\ LET t == tabCounter + 1
       IN /\ tabCounter' = t
          /\ tabs' = tabs \cup {t}
          /\ bindingObjs' = [bindingObjs EXCEPT ![reqs[r].obj].tabId = t]
          /\ reqs' = [reqs EXCEPT ![r].pc = "rendering", ![r].fresh = t]
    /\ UNCHANGED <<routerVars, startVars, panelWs, retryCount, reconnectTimer,
                   sessionBindings, removedEvents, observedClosed, cleanups,
                   startSeen, endSeen, panelSent>>

\* chrome.tabs.create rejects or gives no id: getOrCreateTabForSession throws
\* and the handler answers with an error (lines 483-497).
TabCreateFails(r) ==
    /\ reqs[r].pc \in {"creating", "recreating"}
    /\ reqs' = [reqs EXCEPT ![r].pc = "done", ![r].response = "tab error"]
    /\ panelSent' = PanelSend(panelSent, PanelFrame("RESPONSE", reqs[r].sessionId, r, "tab error"))
    /\ UNCHANGED <<routerVars, startVars, panelWs, retryCount, reconnectTimer,
                   sessionBindings, bindingObjs, tabs, tabCounter, removedEvents,
                   observedClosed, cleanups, startSeen, endSeen>>

\* renderSessionsList has been awaited: getOrCreateTabForSession returns
\* binding.tabId of the object the handler holds, and the request goes to
\* the service worker with that tabId (lines 501-507).
ForwardToExecutor(r) ==
    /\ reqs[r].pc = "rendering"
    /\ reqs' = [reqs EXCEPT ![r].pc = "executing",
                            ![r].tab = bindingObjs[reqs[r].obj].tabId]
    /\ UNCHANGED <<routerVars, startVars, panelWs, retryCount, reconnectTimer,
                   sessionBindings, bindingObjs, tabs, tabCounter, removedEvents,
                   observedClosed, cleanups, startSeen, endSeen, panelSent>>

\* chrome.runtime.sendMessage resolves with the executor's outcome, which
\* the panel sends as the payload of the RESPONSE.
ExecutorResponds(r) ==
    /\ reqs[r].pc = "executing"
    /\ reqs' = [reqs EXCEPT ![r].pc = "done", ![r].response = "executor"]
    /\ panelSent' = PanelSend(panelSent, PanelFrame("RESPONSE", reqs[r].sessionId, r, "executor"))
    /\ UNCHANGED <<routerVars, startVars, panelWs, retryCount, reconnectTimer,
                   sessionBindings, bindingObjs, tabs, tabCounter, removedEvents,
                   observedClosed, cleanups, startSeen, endSeen>>

\* The user closes tab t in the browser; chrome queues tabs.onRemoved.
UserClosesTab(t) ==
    /\ t \in tabs
    /\ tabs' = tabs \ {t}
    /\ removedEvents' = removedEvents \cup {t}
    /\ UNCHANGED <<routerVars, startVars, panelWs, retryCount, reconnectTimer,
                   sessionBindings, bindingObjs, tabCounter, observedClosed, reqs,
                   cleanups, startSeen, endSeen, panelSent>>

\* The session of the first entry of the map whose object has tab t, Null if
\* there is none (the for loop of the onRemoved listener).
SessionOfTab(t) ==
    LET hits == {i \in 1..Len(sessionBindings) :
                    bindingObjs[sessionBindings[i].obj].tabId = t}
    IN IF hits = {} THEN Null
       ELSE sessionBindings[CHOOSE i \in hits : \A j \in hits : i <= j].sessionId

\* A listener that notes the closure and leaves the binding in place.
OnRemoved_KeepingBinding(t) ==
    /\ t \in removedEvents
    /\ removedEvents' = removedEvents \ {t}
    /\ observedClosed' = observedClosed \cup {t}
    /\ UNCHANGED <<routerVars, startVars, panelWs, retryCount, reconnectTimer,
                   sessionBindings, panelSent,
                   bindingObjs, tabs, tabCounter, reqs, cleanups, startSeen, endSeen>>

\* chrome.tabs.onRemoved listener: cleanupSession(sessionId, false) of the
\* first session bound to the tab, then sendSessionEnd.
OnRemoved(t) ==
    /\ t \in removedEvents
    /\ removedEvents' = removedEvents \ {t}
    /\ observedClosed' = observedClosed \cup {t}
    /\ LET s == SessionOfTab(t)
       IN IF s = Null
          THEN UNCHANGED <<sessionBindings, panelSent>>
          ELSE /\ sessionBindings' = BindingDelete(s)
               /\ panelSent' = PanelSend(panelSent, PanelFrame("SESSION_END", s, Null, Null))
    /\ UNCHANGED <<routerVars, startVars, panelWs, retryCount, reconnectTimer,
                   bindingObjs, tabs, tabCounter, reqs, cleanups, startSeen, endSeen>>

\* ws.onmessage for SESSION_END{s}: cleanupSession(s, true) up to its await
\* of chrome.tabs.remove; without a binding it does nothing.
RecvSessionEnd(s) ==
    /\ panelWs = "open"
    /\ s \notin endSeen
    /\ endSeen' = endSeen \cup {s}
    /\ cleanups' = IF HasBinding(s)
                   THEN Append(cleanups, [sessionId |-> s, tab |-> BoundTab(s), pc |-> "removing"])
                   ELSE cleanups
    /\ UNCHANGED <<routerVars, startVars, panelWs, retryCount, reconnectTimer,
                   sessionBindings, bindingObjs, tabs, tabCounter, removedEvents,
                   observedClosed, reqs, startSeen, panelSent>>

\* chrome.tabs.remove settles (a rejection is caught): the tab is gone and
\* whatever entry the map holds for the session is deleted.
TabRemoved(k) ==
    /\ cleanups[k].pc = "removing"
    /\ cleanups' = [cleanups EXCEPT ![k].pc = "done"]
    /\ tabs' = tabs \ {cleanups[k].tab}
    /\ removedEvents' = IF cleanups[k].tab \in tabs
                        THEN removedEvents \cup {cleanups[k].tab} ELSE removedEvents
    /\ sessionBindings' = BindingDelete(cleanups[k].sessionId)
    /\ UNCHANGED <<routerVars, startVars, panelWs, retryCount, reconnectTimer,
                   bindingObjs, tabCounter, observedClosed, reqs, startSeen, endSeen,
                   panelSent>>

\* A handler that allocates the session's tab as soon as the session starts.
handleSessionStart_EagerTab(s, state) ==
    [bindings |-> Append(state.bindings, [sessionId |-> s, obj |-> Len(state.objs) + 1]),
     objs |-> Append(state.objs, [sessionId |-> s, tabId |-> state.counter + 1]),
     tabs |-> state.tabs \cup {state.counter + 1},
     counter |-> state.counter + 1]

\* What ws.onmessage does with a SESSION_START frame to the binding map and
\* the tab set: the frame matches neither branch of the handler.
handleSessionStart(s, state) == state

RecvSessionStart(s) ==
    /\ panelWs = "open"
    /\ s \notin startSeen
    /\ s \notin endSeen
    /\ startSeen' = startSeen \cup {s}
    /\ LET after == handleSessionStart(s, [bindings |-> sessionBindings, objs |-> bindingObjs,
                                           tabs |-> tabs, counter |-> tabCounter])
       IN /\ sessionBindings' = after.bindings
          /\ bindingObjs' = after.objs
          /\ tabs' = after.tabs
          /\ tabCounter' = after.counter
    /\ UNCHANGED <<routerVars, startVars, panelWs, retryCount, reconnectTimer,
                   removedEvents, observedClosed, reqs, cleanups, endSeen, panelSent>>

\* ws.onopen
PanelWsOpen ==
    /\ panelWs = "connecting"
    /\ panelWs' = "open"
    /\ retryCount' = 0
    /\ UNCHANGED <<routerVars, startVars, reconnectTimer, sessionBindings, bindingObjs,
                   tabs, tabCounter, removedEvents, observedClosed, reqs, cleanups,
                   startSeen, endSeen, panelSent>>

\* scheduleReconnect: the counter is incremented before it is compared, and
\* the timer is armed only below MAX_RETRIES.
scheduleReconnect(count) ==
    [retryCount |-> count + 1, reconnectTimer |-> count + 1 < MAX_RETRIES]

\* ws.onclose, for a socket that failed to connect, that the server closed,
\* or that disconnect() closed.  panelSent holds the frames written to the
\* current socket; they go with it.
PanelWsClose ==
    /\ panelWs \in {"connecting", "open", "disconnecting"}
    /\ panelWs' = "closed"
    /\ retryCount' = scheduleReconnect(retryCount).retryCount
    /\ reconnectTimer' = scheduleReconnect(retryCount).reconnectTimer
    /\ panelSent' = {}
    /\ UNCHANGED <<routerVars, startVars, sessionBindings, bindingObjs, tabs, tabCounter,
                   removedEvents, observedClosed, reqs, cleanups, startSeen, endSeen>>

\* manualReconnect (the reconnect button, enabled while disconnected)
manualReconnect ==
    /\ panelWs = "closed"
    /\ retryCount' = 0
    /\ panelWs' = "connecting"
    /\ UNCHANGED <<routerVars, startVars, reconnectTimer, sessionBindings, bindingObjs,
                   tabs, tabCounter, removedEvents, observedClosed, reqs, cleanups,
                   startSeen, endSeen, panelSent>>

\* disconnect (the disconnect button): ws.close() and ws = null; onclose
\* follows as PanelWsClose.
disconnect ==
    /\ panelWs = "open"
    /\ reconnectTimer' = FALSE
    /\ retryCount' = MAX_RETRIES
    /\ panelWs' = "disconnecting"
    /\ UNCHANGED <<routerVars, startVars, sessionBindings, bindingObjs, tabs, tabCounter,
                   removedEvents, observedClosed, reqs, cleanups, startSeen, endSeen,
                   panelSent>>

\* The callback of the reconnect timer calls connect(); with the shipped
\* MAX_RETRIES the timer is never armed, so the callback never runs.
PanelNext ==
    \/ \E s \in SessionIds : \E e \in {Null} \cup tabs : PanelRequest(s, e)
    \/ \E r \in 1..Len(reqs) : TabCreated(r)
    \/ \E r \in 1..Len(reqs) : TabChecked(r)
    \/ \E r \in 1..Len(reqs) : TabRecreated(r)
    \/ \E r \in 1..Len(reqs) : TabCreateFails(r)
    \/ \E r \in 1..Len(reqs) : ForwardToExecutor(r)
    \/ \E r \in 1..Len(reqs) : ExecutorResponds(r)
    \/ \E t \in tabs : UserClosesTab(t)
    \/ \E t \in removedEvents : OnRemoved(t)
    \/ \E s \in SessionIds : RecvSessionEnd(s)
    \/ \E k \in 1..Len(cleanups) : TabRemoved(k)
    \/ \E s \in SessionIds : RecvSessionStart(s)
    \/ PanelWsOpen
    \/ PanelWsClose
    \/ manualReconnect
    \/ disconnect

PanelSpec == Init /\ [][PanelNext]_vars

\* ------------------------------------------- daemon: the 'data' handler
\* What a helper socket delivers, in units of buffer.length: "p" is the text
\* of a PING message, "x" a character that starts no JSON value, "n" the
\* newline.  The other message types are dispatched like PING; the actions
\* above model them line by line.
Units == {"p", "x", "n"}

Chunks == UNION {[1..n -> Units] : n \in 1..MaxChunk}

\* JSON.parse(line) returns a message: one message text and nothing else.
JSONparses(line) == line = <<"p">>

\* handlePing without a sessionId: PONG with the id of the PING.
handlePing(out, cn, c, id) ==
    sendToClient(out, cn, c, Message("PONG", id, Null, TRUE, Null, ""))

\* The body of the while loop for one line: a blank line is skipped, a line
\* that does not parse is logged in the catch block, a PING is answered.
HandleLine(line, out, cn, c) ==
    IF line = <<>> THEN out
    ELSE IF JSONparses(line) THEN handlePing(out, cn, c, Null)
    ELSE out

IndexOfNewline(buf) ==
    IF \E i \in 1..Len(buf) : buf[i] = "n"
    THEN CHOOSE i \in 1..Len(buf) : buf[i] = "n" /\ \A j \in 1..(i - 1) : buf[j] # "n"
    ELSE 0

RECURSIVE ProcessLines_StopAtBadLine(_, _, _, _)
\* A loop that gives up on the connection's input at the first line that
\* does not parse.
ProcessLines_StopAtBadLine(buf, out, cn, c) ==
    IF IndexOfNewline(buf) = 0 THEN [buffer |-> buf, out |-> out]
    ELSE LET line == SubSeq(buf, 1, IndexOfNewline(buf) - 1)
             rest == SubSeq(buf, IndexOfNewline(buf) + 1, Len(buf))
         IN IF line # <<>> /\ ~JSONparses(line)
            THEN [buffer |-> <<>>, out |-> out]
            ELSE ProcessLines_StopAtBadLine(rest, HandleLine(line, out, cn, c), cn, c)

RECURSIVE ProcessLines(_, _, _, _)
\* while ((newlineIndex = buffer.indexOf('\n')) !== -1) { ... }
ProcessLines(buf, out, cn, c) ==
    IF IndexOfNewline(buf) = 0 THEN [buffer |-> buf, out |-> out]
    ELSE LET line == SubSeq(buf, 1, IndexOfNewline(buf) - 1)
             rest == SubSeq(buf, IndexOfNewline(buf) + 1, Len(buf))
         IN ProcessLines(rest, HandleLine(line, out, cn, c), cn, c)

BufferOverflow_AtCap(buf) == Len(buf) >= MAX_BUFFER_SIZE

\* if (buffer.length > MAX_BUFFER_SIZE)
BufferOverflow(buf) == Len(buf) > MAX_BUFFER_SIZE

RECURSIVE TotalReceived(_)
TotalReceived(n) == IF n = 0 THEN 0 ELSE Len(received[n]) + TotalReceived(n - 1)

\* socket.on('data'): the chunk is appended; an oversized buffer destroys the
\* socket before any line is looked at; otherwise every complete line is
\* handled and the rest is kept.
SocketData(c, chunk) ==
    /\ phase # "exited"
    /\ conn[c] = "open"
    /\ TotalReceived(NumConns) + Len(chunk) <= MaxStream
    /\ received' = [received EXCEPT ![c] = @ \o chunk]
    /\ peak' = [peak EXCEPT ![c] = IF Len(buffer[c] \o chunk) > @
                                    THEN Len(buffer[c] \o chunk) ELSE @]
    /\ IF BufferOverflow(buffer[c] \o chunk)
       THEN /\ buffer' = [buffer EXCEPT ![c] = @ \o chunk]
            /\ conn' = [conn EXCEPT ![c] = "ended"]
            /\ UNCHANGED clientOut
       ELSE /\ buffer' = [buffer EXCEPT ![c] =
                            ProcessLines(@ \o chunk, clientOut, conn, c).buffer]
            /\ clientOut' = ProcessLines(buffer[c] \o chunk, clientOut, conn, c).out
            /\ UNCHANGED conn
    /\ UNCHANGED <<daemonVars, wsState, calls, wsSent, helperVars, events, startVars,
                   panelVars, pickVars>>

DataNext ==
    \/ \E c \in Conns : HelperConnect(c)
    \/ \E c \in Conns : HelperRegister(c)
    \/ \E c \in Conns : \E chunk \in Chunks : SocketData(c, chunk)
    \/ \E c \in Conns : ClientClose(c)

DataSpec == Init /\ [][DataNext]_vars

\* ------------------------------------- side panel: the tab of a new session
\* A URL as written: its scheme, whether new URL(url) accepts it, its host
\* and its path.
Urls ==
    {NoUrl} \cup
    [present : {TRUE},
     scheme : {"http", "https", "HTTPS", "chrome", "chrome-extension", "about", "file"},
     parses : BOOLEAN,
     host : {"example.com", "chromewebstore.google.com", "chrome.google.com",
             "Chrome.Google.com"},
     path : {"/", "/docs", "/webstore", "/webstore/detail/foo"}]

TabInfos == {NoTab} \cup [given : {TRUE}, id : 1..NumTabIds, url : Urls]

\* String.prototype.toLowerCase and the i flag of the regular expression
toLowerCase(str) ==
    CASE str = "HTTPS" -> "https"
      [] str = "Chrome.Google.com" -> "chrome.google.com"
      [] OTHER -> str

\* parsed.pathname.startsWith('/webstore')
StartsWithWebstore(path) == path \in {"/webstore", "/webstore/detail/foo"}

isScriptableUrl_AnyHost(url) ==
    IF ~url.present THEN FALSE
    ELSE IF toLowerCase(url.scheme) \notin {"http", "https"} THEN FALSE
    ELSE url.parses

\* isScriptableUrl
isScriptableUrl(url) ==
    IF ~url.present THEN FALSE
    ELSE IF toLowerCase(url.scheme) \notin {"http", "https"} THEN FALSE
    ELSE IF ~url.parses THEN FALSE
    ELSE IF toLowerCase(url.host) = "chromewebstore.google.com" THEN FALSE
    ELSE IF toLowerCase(url.host) = "chrome.google.com" /\ StartsWithWebstore(url.path)
         THEN FALSE
    ELSE TRUE

\* pickTabIdForNewSession
pickTabIdForNewSession(tab) ==
    IF ~tab.given THEN Null
    ELSE IF ~isScriptableUrl(tab.url) THEN Null
    ELSE tab.id

PickInit == InitBase /\ activeTab \in TabInfos /\ picked = Unpicked

PickTab ==
    /\ picked = Unpicked
    /\ picked' = pickTabIdForNewSession(activeTab)
    /\ UNCHANGED <<daemonVars, socketVars, logVars, helperVars, events, dataVars,
                   activeTab, startVars, panelVars>>

PickSpec == PickInit /\ [][PickTab]_vars



\* =================================================================
\* Properties
\* =================================================================
Calls == 1..Len(calls)

\* The positions of the RESPONSE lines with this id written to socket c.
Responses(c, id) ==
    {i \in 1..Len(clientOut[c]) :
        clientOut[c][i].type = "RESPONSE" /\ clientOut[c][i].id = id}

\* The call came from a registered session with an action, so that
\* handleRequest handed it to sendToExtension.
FromRegisteredSession(k) ==
    calls[k].error \notin {"Missing sessionId", "Invalid session", "Missing action"}

\* The call got a pending entry and a REQUEST frame.
Forwarded(k) == calls[k].ws # Null

\* The step handles one more REQUEST line; calls'[Len(calls')] is its record.
HandlesRequest == Len(calls') = Len(calls) + 1

\* C1: a REQUEST from a registered session never has two RESPONSE lines
\* written to the helper connection that sent it, and once its promise has
\* settled (by the extension's RESPONSE, a timeout or an abort) while that
\* helper connection is not closed, it has exactly one.
C1_ExactlyOneOutcome ==
    \A k \in Calls :
        FromRegisteredSession(k) =>
            /\ Cardinality(Responses(calls[k].socket, calls[k].id)) <= 1
            /\ (calls[k].result # "pending" /\ conn[calls[k].socket] # "closed")
                  => Cardinality(Responses(calls[k].socket, calls[k].id)) = 1

\* C2: every RESPONSE line that carries what the extension produced for the
\* REQUEST of some helper is written to that helper's connection only.
C2_ResponseOnlyToSender ==
    \A c \in Conns : \A i \in 1..Len(clientOut[c]) :
        (clientOut[c][i].type = "RESPONSE" /\ clientOut[c][i].payloadOf # Null)
            => calls[clientOut[c][i].payloadOf].socket = c

\* C3: two REQUESTs the daemon has handled for different helpers never carry
\* the same request id.
C3_RequestIdsDistinctAcrossHelpers ==
    \A j, k \in Calls :
        calls[j].socket # calls[k].socket => calls[j].id # calls[k].id

\* C4: over all helper connections, at most one RESPONSE is delivered for a
\* request id that was given a pending entry: once the entry is resolved,
\* timed out or aborted, a later RESPONSE or timer for that id delivers
\* nothing.
C4_ReqIdCompletesOnce ==
    \A k \in Calls :
        Forwarded(k) =>
            Cardinality(UNION {{<<c, i>> : i \in
                                  {j \in Responses(c, calls[k].id) :
                                      clientOut[c][j].error # "Browser extension not connected"}}
                               : c \in Conns})
                <= 1

\* C5: a REQUEST whose id is already a key of the pending table is rejected
\* at once, and the table and the call that owns the existing entry are left
\* as they were.
C5_DuplicateReqIdRejected ==
    [][(HandlesRequest /\ PendingHas(pendingRequests, calls'[Len(calls')].id))
          => /\ pendingRequests' = pendingRequests
             /\ calls'[Len(calls')].result = "rejected"
             /\ SubSeq(calls', 1, Len(calls)) = calls]_vars

\* The step handles a REQUEST line of a session that is in the session table.
HandlesRequestOfSession ==
    /\ HandlesRequest
    /\ calls'[Len(calls')].sessionId \in DOMAIN sessions

\* The step wrote this error RESPONSE for request id to socket c.
WritesError(c, id, error) ==
    \E i \in (Len(clientOut[c]) + 1)..Len(clientOut'[c]) :
        /\ clientOut'[c][i].type = "RESPONSE"
        /\ clientOut'[c][i].id = id
        /\ ~clientOut'[c][i].success
        /\ clientOut'[c][i].error = error

\* C6: when a REQUEST of a registered session is handled while no extension
\* WebSocket is open, the step itself writes the error RESPONSE "Browser
\* extension not connected" to the sender, sends no frame, and leaves the
\* pending table unchanged and the call without a timer.
C6_NotConnectedFailsFast ==
    [][(HandlesRequestOfSession /\ \A w \in WsIds : wsState[w] # "open")
          => LET new == calls'[Len(calls')]
             IN /\ new.result = "rejected"
                /\ new.error = "Browser extension not connected"
                /\ WritesError(new.socket, new.id, "Browser extension not connected")
                /\ wsSent' = wsSent
                /\ pendingRequests' = pendingRequests
                /\ ~new.timer]_vars

\* C6 happens: no extension WebSocket ever connected, and a REQUEST was
\* answered "Browser extension not connected".
C6_Witness ==
    /\ \A w \in WsIds : wsState[w] = "none"
    /\ \E k \in Calls :
          /\ calls[k].error = "Browser extension not connected"
          /\ \E i \in Responses(calls[k].socket, calls[k].id) :
                clientOut[calls[k].socket][i].error = "Browser extension not connected"

\* The 'close' event of the uplink WebSocket w.
UplinkCloses(w) ==
    /\ sharedExtensionWs = w
    /\ wsState[w] \in {"open", "closing"}
    /\ wsState'[w] = "closed"

\* C7: when the uplink WebSocket closes, the pending table is empty
\* afterwards, the session table is unchanged, and the call of every entry
\* is rejected with "Extension disconnected", its timer cleared and the
\* error written to its helper if that connection is open.
C7_UplinkCloseAbortsAll ==
    [][(\E w \in WsIds : UplinkCloses(w))
          => /\ pendingRequests' = <<>>
             /\ sessions' = sessions
             /\ \A n \in 1..Len(pendingRequests) :
                   LET k == pendingRequests[n].call
                   IN /\ calls'[k].result = "rejected"
                      /\ calls'[k].error = "Extension disconnected"
                      /\ ~calls'[k].timer
                      /\ conn[calls[k].socket] = "open"
                            => WritesError(calls[k].socket, calls[k].id,
                                           "Extension disconnected")]_vars

\* C7 happens: the uplink closed under a pending request of a session that
\* is still registered, and the helper was told "Extension disconnected".
C7_Witness ==
    /\ pendingRequests = <<>>
    /\ \E k \in Calls :
          /\ calls[k].error = "Extension disconnected"
          /\ calls[k].sessionId \in DOMAIN sessions
          /\ wsState[calls[k].ws] = "closed"
          /\ \E i \in Responses(calls[k].socket, calls[k].id) :
                clientOut[calls[k].socket][i].error = "Extension disconnected"

\* C8: a REQUEST of a registered session handled while some extension
\* WebSocket is open at the daemon is forwarded on an open WebSocket.
C8_OpenWsIsUsed ==
    [][(HandlesRequestOfSession /\ \E w \in WsIds : wsState[w] = "open")
          => LET new == calls'[Len(calls')]
             IN /\ new.ws # Null
                /\ wsState[new.ws] = "open"
                /\ new.error # "Browser extension not connected"]_vars

\* The helper connection c completed REGISTER: REGISTER_OK was written to it.
Registered(c) ==
    \E i \in 1..Len(clientOut[c]) : clientOut[c][i].type = "REGISTER_OK"

\* The helper connections that own a session of the table.
SessionSockets == {sessions[s].socket : s \in DOMAIN sessions}

\* The registered helper connections that are open at the daemon.
LiveRegistered == {c \in Conns : conn[c] = "open" /\ Registered(c)}

\* The registered helper connections that are open at the daemon and on which
\* the helper has not sent DISCONNECT (it still holds its daemon socket).
LiveRegisteredNotDisconnected == {c \in LiveRegistered : daemonSocket[c]}

HandlesDisconnect(c) ==
    /\ conn[c] = "open" /\ conn'[c] = "open"
    /\ daemonSocket[c] /\ ~daemonSocket'[c]

\* The step is the 'close' event of helper connection c.
ConnectionCloses(c) == conn[c] # "closed" /\ conn'[c] = "closed"

\* The step terminates session S by DISCONNECT or by helper-connection close.
Terminates(S) ==
    \/ HandlesDisconnect(sessions[S].socket) /\ sessionId[sessions[S].socket] = S
    \/ ConnectionCloses(sessions[S].socket)

\* C10: a step that terminates session S by DISCONNECT or connection close
\* removes S and no other session, removes exactly the pending entries whose
\* sessionId is S, rejects the calls of those entries with an error and
\* clears their timers, and changes no other call.
C10_TerminationFrame ==
    [][\A S \in DOMAIN sessions :
          Terminates(S) =>
             LET mine == {n \in 1..Len(pendingRequests) : pendingRequests[n].sessionId = S}
                 aborted == {pendingRequests[n].call : n \in mine}
             IN /\ DOMAIN sessions' = DOMAIN sessions \ {S}
                /\ \A T \in DOMAIN sessions' : sessions'[T] = sessions[T]
                /\ pendingRequests' = SelectSeq(pendingRequests, LAMBDA e : e.sessionId # S)
                /\ \A k \in aborted :
                      /\ calls'[k].result = "rejected"
                      /\ calls'[k].error \in {"Session disconnected", "Client disconnected"}
                      /\ ~calls'[k].timer
                /\ \A k \in Calls \ aborted : calls'[k] = calls[k]]_vars

\* C10 happens: a session was terminated under a pending request of its own
\* while the request of another session stayed in the pending table.
C10_Witness ==
    \E k \in Calls :
        /\ calls[k].error \in {"Session disconnected", "Client disconnected"}
        /\ calls[k].sessionId \notin DOMAIN sessions
        /\ \E n \in 1..Len(pendingRequests) :
              /\ pendingRequests[n].sessionId \in DOMAIN sessions
              /\ calls[pendingRequests[n].call].result = "pending"

\* The step sent SESSION_END{S} on extension WebSocket w.
SendsSessionEnd(w, S) ==
    \E i \in (Len(wsSent[w]) + 1)..Len(wsSent'[w]) :
        wsSent'[w][i].type = "SESSION_END" /\ wsSent'[w][i].sessionId = S

\* C11: every step in which a session S leaves the session table while the
\* uplink WebSocket is open (by DISCONNECT, by helper-connection close or by
\* daemon shutdown) sends SESSION_END{S} on the uplink.
C11_SessionEndOnEveryTermination ==
    [][\A S \in DOMAIN sessions :
          (S \notin DOMAIN sessions' /\ WsIsOpen(sharedExtensionWs))
              => SendsSessionEnd(sharedExtensionWs, S)]_vars

\* What shutdown() and the exit timeout leave behind: both listeners closed,
\* no pending entry, socket file and PID file removed, process exited.
ShutDownAndExited ==
    /\ phase = "exited"
    /\ ~resources.wsServer /\ ~resources.unixServer
    /\ ~resources.socketFile /\ ~resources.pidFile
    /\ pendingRequests = <<>>

\* C12: if from some point on the session table is empty for good, the daemon
\* eventually has closed its listeners, aborted every pending entry, removed
\* its socket and PID file and exited, and stays so.
C12_IdleDaemonShutsDown ==
    <>[](DOMAIN sessions = {}) => <>[]ShutDownAndExited

\* C12 happens: a session was registered, the table became empty, the idle
\* timer shut the daemon down and the process exited.
C12_Witness ==
    /\ ShutDownAndExited
    /\ DOMAIN sessions = {}
    /\ \E c \in Conns : Registered(c) /\ conn[c] = "closed"
    /\ shutdownLog = "No active sessions for 60s"

\* C13: a step in which the idle timer shuts the daemon down starts in a
\* state whose session table is empty.
C13_IdleShutdownOnlyWhenEmpty ==
    [][(phase = "running" /\ phase' = "stopping"
        /\ shutdownLog' = "No active sessions for 60s")
          => DOMAIN sessions = {}]_vars

\* C13 happens: the idle timer has fired while a session was registered, and
\* the daemon is still running with that session.
C13_Witness ==
    /\ phase = "running"
    /\ ~idleTimer
    /\ DOMAIN sessions # {}

\* The step handles the REGISTER line of helper connection c (the first line
\* a helper writes).
HandlesRegister(c) == requestIdCounter[c] = 0 /\ requestIdCounter'[c] = 1

\* The step wrote a line of this type to socket c.
WritesLine(c, type) ==
    \E i \in (Len(clientOut[c]) + 1)..Len(clientOut'[c]) : clientOut'[c][i].type = type

\* C14: the session table never holds more than MAX_SESSIONS sessions; a
\* REGISTER handled with fewer than MAX_SESSIONS sessions adds one new session
\* owned by the sender and is answered REGISTER_OK with its id, and a REGISTER
\* handled with MAX_SESSIONS sessions is answered REGISTER_ERROR, leaves the
\* table unchanged and ends the sender's connection.
C14_SessionCap ==
    /\ [](Cardinality(DOMAIN sessions) <= MAX_SESSIONS)
    /\ [][\A c \in Conns :
            HandlesRegister(c) =>
               IF Cardinality(DOMAIN sessions) < MAX_SESSIONS
               THEN /\ \E s \in DOMAIN sessions' \ DOMAIN sessions :
                          /\ DOMAIN sessions' = DOMAIN sessions \cup {s}
                          /\ sessions'[s].socket = c
                          /\ \E i \in (Len(clientOut[c]) + 1)..Len(clientOut'[c]) :
                                /\ clientOut'[c][i].type = "REGISTER_OK"
                                /\ clientOut'[c][i].sessionId = s
                    /\ \A t \in DOMAIN sessions : sessions'[t] = sessions[t]
                    /\ conn'[c] = "open"
               ELSE /\ WritesLine(c, "REGISTER_ERROR")
                    /\ ~WritesLine(c, "REGISTER_OK")
                    /\ sessions' = sessions
                    /\ conn'[c] = "ended"]_vars

\* C14 happens: the table is full and a further REGISTER was refused.
C14_Witness ==
    /\ Cardinality(DOMAIN sessions) = MAX_SESSIONS
    /\ \E c \in Conns :
          /\ conn[c] = "ended"
          /\ \E i \in 1..Len(clientOut[c]) : clientOut[c][i].type = "REGISTER_ERROR"

\* The step makes socket c write a STATUS_OK line; this is its position.
StatusOkWritten(c) ==
    {i \in (Len(clientOut[c]) + 1)..Len(clientOut'[c]) : clientOut'[c][i].type = "STATUS_OK"}

\* Some extension WebSocket is open.
SomeWsOpen == \E w \in WsIds : wsState[w] = "open"

\* C15: a STATUS_OK line reports the state in which STATUS is handled:
\* extensionConnected is true exactly when some extension WebSocket is open,
\* and activeSessions is the size of the session table.
C15_StatusReportsLiveState ==
    [][\A c \in Conns : \A i \in StatusOkWritten(c) :
          /\ clientOut'[c][i].extensionConnected = SomeWsOpen
          /\ clientOut'[c][i].activeSessions = Cardinality(DOMAIN sessions)]_vars

\* The positions of the results of this tool that the step adds for helper c.
NewResults(c, tool) ==
    {j \in (Len(mcpOut[c]) + 1)..Len(mcpOut'[c]) : mcpOut'[c][j].tool = tool}

\* C16: a browser_get_connection_status result with mode "daemon" has
\* connected equal to the daemon's extensionConnected state and carries the
\* helper's sessionId.
C16_StatusToolReportsDaemonState ==
    [][\A c \in Conns : \A j \in NewResults(c, "browser_get_connection_status") :
          mcpOut'[c][j].mode = "daemon" =>
             /\ mcpOut'[c][j].connected = isExtensionConnected
             /\ mcpOut'[c][j].sessionId = sessionId[c]
             /\ sessionId[c] # Null]_vars

\* text contains err, for the error strings of the model: the text the
\* direct path throws starts with "Browser extension not connected".
Contains(text, err) ==
    \/ text = err
    \/ text = NotConnectedText /\ err = "Browser extension not connected"

\* The step delivers to the live helper c a RESPONSE with ok = false for a
\* request it is waiting for; this is the line's position.
FailureDelivered(c) ==
    {i \in (Len(clientOut[c]) + 1)..Len(clientOut'[c]) :
        /\ clientOut'[c][i].type = "RESPONSE"
        /\ ~clientOut'[c][i].success
        /\ ~exited'[c]
        /\ \/ clientOut'[c][i].id \in helperPending[c]
           \/ HandlesRequest /\ calls'[Len(calls')].socket = c
                             /\ calls'[Len(calls')].id = clientOut'[c][i].id}

\* C17: a RESPONSE with ok = false for a pending tool call of a helper in
\* daemon mode yields exactly one tool result for that call, an error whose
\* text contains the error string of the RESPONSE.
C17_FailureSurfacedWithError ==
    [][\A c \in Conns : \A i \in FailureDelivered(c) :
          LET mine == {j \in NewResults(c, "call") : mcpOut'[c][j].id = clientOut'[c][i].id}
          IN /\ Cardinality(mine) = 1
             /\ \A j \in mine : /\ mcpOut'[c][j].isError
                                 /\ Contains(mcpOut'[c][j].text, clientOut'[c][i].error)]_vars

\* The step is the graceful termination of helper c.
HelperTerminates(c) == ~exited[c] /\ exited'[c]

\* C20: when a helper that holds a session terminates gracefully, the daemon
\* gets its DISCONNECT on the still open socket and removes the session, and
\* the helper's pending table ends empty.
C20_GracefulExitDisconnects ==
    [][\A c \in Conns : (HelperTerminates(c) /\ sessionId[c] # Null) =>
          /\ requestIdCounter'[c] = requestIdCounter[c] + 1
          /\ sessionId[c] \notin DOMAIN sessions'
          /\ helperPending'[c] = {}]_vars

\* The step is helper h spawning a daemon process.
Spawns(h) == daemonProc[h] = "none" /\ daemonProc'[h] = "starting"

\* C18: a helper spawns a daemon process only when no daemon process spawned
\* by a helper is starting or listening, so helpers that start together while
\* no daemon is running spawn at most one.
C18_AtMostOneSpawn ==
    [][\A h \in Conns : Spawns(h) =>
          \A d \in Conns : daemonProc[d] \notin {"starting", "listening"}]_vars

\* The step ends the startup of helper h.
StartupEnds(h) ==
    /\ startup[h] \notin {"daemon", "direct", "crashed"}
    /\ startup'[h] \in {"daemon", "direct", "crashed"}

\* C19: when the startup of a helper ends, the helper is either in daemon
\* mode, attached to a listening daemon that holds its session, or in direct
\* mode with its own WebSocket server listening on the port.
C19_StartupEndsInAMode ==
    [][\A h \in Conns : StartupEnds(h) =>
          \/ /\ startup'[h] = "daemon"
             /\ attached'[h] # Null
             /\ daemonProc'[attached'[h]] = "listening"
             /\ h \in registered'[attached'[h]]
          \/ /\ startup'[h] = "direct"
             /\ wssInstance'[h]
             /\ wsPort' = HelperProcess(h)]_vars

\* C21: when the socket of a live helper that holds a session closes, the
\* helper process exits.
C21_DaemonLossEndsHelper ==
    [][\A c \in Conns :
          (ConnectionCloses(c) /\ sessionId[c] # Null /\ ~exited[c]) => exited'[c]]_vars


\* ------------------------------------------------------------ C22
\* The bindings of two distinct sessions never point to the same tab.
NoImplicitSharing ==
    \A i, j \in 1..Len(sessionBindings) :
        i # j => bindingObjs[sessionBindings[i].obj].tabId
                   # bindingObjs[sessionBindings[j].obj].tabId

\* A step that stores a new binding object stores one whose tab did not
\* exist before the step.
BindingCreatedOnFreshTab ==
    \A i \in 1..Len(sessionBindings') :
        sessionBindings'[i].obj > Len(bindingObjs)
            => /\ bindingObjs'[sessionBindings'[i].obj].tabId \notin tabs
               /\ bindingObjs'[sessionBindings'[i].obj].tabId \in tabs'
               /\ bindingObjs'[sessionBindings'[i].obj].tabId > tabCounter
               /\ bindingObjs'[sessionBindings'[i].obj].sessionId = sessionBindings'[i].sessionId

\* A request without explicit tabId that arrived when its session was bound
\* to an open tab is handed to the executor with that tab, as long as the
\* tab is still open.
LaterRequestsUseBoundTab ==
    \A r \in 1..Len(reqs) :
        (/\ reqs[r].pc = "rendering" /\ reqs'[r].pc = "executing"
         /\ reqs[r].explicit = Null
         /\ reqs[r].foundOpen /\ reqs[r].found \in tabs)
            => reqs'[r].tab = reqs[r].found

\* C22: two distinct sessions never have the same home tab; every binding
\* is created on a tab newly opened for its session, and later requests of
\* the session without explicit tabId are executed in the bound tab.
C22_NoImplicitTabSharing ==
    /\ []NoImplicitSharing
    /\ [][BindingCreatedOnFreshTab /\ LaterRequestsUseBoundTab]_vars

\* Reached: a second request of a bound session has been handed to the
\* executor with the tab its session was bound to on arrival.
C22_Witness ==
    \E r \in 1..Len(reqs) :
        /\ reqs[r].explicit = Null
        /\ reqs[r].foundOpen
        /\ reqs[r].pc = "done"
        /\ reqs[r].tab = reqs[r].found
        /\ HasBinding(reqs[r].sessionId)
        /\ BoundTab(reqs[r].sessionId) = reqs[r].tab

\* ------------------------------------------------------------ C23
\* C23: a request without explicit tabId that arrives, with no other request
\* of its session in progress, after the session's home tab was closed is
\* handed to the executor with a tab that was opened for this request and
\* that the session is bound to, and is answered with the executor's result.
C23_ClosedHomeTabIsReplaced ==
    [][\A r \in 1..Len(reqs) :
          (/\ reqs[r].explicit = Null
           /\ reqs[r].homeClosed /\ reqs[r].alone
           /\ \A q \in 1..Len(reqs) : (q # r /\ reqs[q].sessionId = reqs[r].sessionId)
                                         => reqs[q].pc = "done"
           /\ reqs[r].pc = "executing" /\ reqs'[r].pc = "done")
              => /\ reqs[r].fresh # Null
                 /\ reqs[r].tab = reqs[r].fresh
                 /\ HasBinding(reqs[r].sessionId)
                 /\ BoundTab(reqs[r].sessionId) = reqs[r].fresh
                 /\ reqs'[r].response = "executor"]_vars

C25_ExplicitTabOverridesAndRebinds ==
    [][\A r \in 1..Len(reqs) :
          (/\ reqs[r].explicit # Null
           /\ reqs[r].explicit \in tabs
           /\ reqs[r].pc = "rendering" /\ reqs'[r].pc = "executing")
              => /\ reqs'[r].tab = reqs[r].explicit
                 /\ HasBinding(reqs[r].sessionId)'
                 /\ BoundTab(reqs[r].sessionId)' = reqs[r].explicit]_vars

\* ------------------------------------------------------------ C26
\* C26: once SESSION_END{s} has been handled to its end and every request
\* of s has finished, s has no binding and no tab opened for s is open.
C26_SessionEndRemovesBindingAndTab ==
    \A s \in endSeen :
        (/\ \A k \in 1..Len(cleanups) : cleanups[k].sessionId = s => cleanups[k].pc = "done"
         /\ \A r \in 1..Len(reqs) : reqs[r].sessionId = s => reqs[r].pc = "done")
            => /\ ~HasBinding(s)
               /\ \A o \in 1..Len(bindingObjs) :
                     bindingObjs[o].sessionId = s => bindingObjs[o].tabId \notin tabs

\* ------------------------------------------------------------ C27
\* C27: handling SESSION_START{s} opens no tab and creates no binding, and a
\* session of which no REQUEST was received has neither a binding nor a tab
\* opened for it.
C27_SessionStartAllocatesNothing ==
    /\ [][\A s \in SessionIds :
            (s \notin startSeen /\ s \in startSeen')
                => /\ tabs' = tabs
                   /\ tabCounter' = tabCounter
                   /\ sessionBindings' = sessionBindings
                   /\ bindingObjs' = bindingObjs]_vars
    /\ [](\A s \in SessionIds :
            (\A r \in 1..Len(reqs) : reqs[r].sessionId # s)
                => /\ \A i \in 1..Len(sessionBindings) : sessionBindings[i].sessionId # s
                   /\ \A o \in 1..Len(bindingObjs) : bindingObjs[o].sessionId # s)

\* Reached: SESSION_START{s} was handled, no REQUEST of s was received, and
\* another session holds a tab.
C27_Witness ==
    \E s \in startSeen :
        /\ \A r \in 1..Len(reqs) : reqs[r].sessionId # s
        /\ \E i \in 1..Len(sessionBindings) :
              /\ sessionBindings[i].sessionId # s
              /\ bindingObjs[sessionBindings[i].obj].tabId \in tabs

\* ------------------------------------------------------------ C28
\* C28: when the socket closes without disconnect() having been called and
\* fewer than MAX_RETRIES automatic attempts were made since the last
\* successful connection or manual reconnect, a reconnect is scheduled; once
\* MAX_RETRIES were made none is.
C28_AutoReconnectUpToCap ==
    [][(panelWs \in {"connecting", "open"} /\ panelWs' = "closed")
          => (reconnectTimer' <=> retryCount < MAX_RETRIES)]_vars

\* ------------------------------------------------------------ C29, C30
\* The units a step delivered on socket c, and the buffer they made.
Delivered(c) == SubSeq(received'[c], Len(received[c]) + 1, Len(received'[c]))
Filled(c) == buffer[c] \o Delivered(c)

\* The complete lines of a stream that are PING messages, by position.
PingLines(stream) ==
    {i \in 1..Len(stream) :
        /\ stream[i] = "p"
        /\ i = 1 \/ stream[i - 1] = "n"
        /\ i < Len(stream) /\ stream[i + 1] = "n"}

\* The complete lines of a stream that are not empty and do not parse, by
\* the position of their newline.
BadLines(stream) ==
    {i \in 1..Len(stream) :
        /\ stream[i] = "n"
        /\ i > 1 /\ stream[i - 1] # "n"
        /\ ~(/\ stream[i - 1] = "p"
             /\ i = 2 \/ stream[i - 2] = "n")}

Pongs(out) == Len(SelectSeq(out, LAMBDA m : m.type = "PONG"))

\* C29: a chunk that fills the buffer of a socket to at most
\* MAX_BUFFER_SIZE units leaves the socket open and every complete PING
\* line of the buffer is answered; a chunk that fills it beyond
\* MAX_BUFFER_SIZE ends the socket and nothing of the buffer is answered.
C29_BufferCapIsInclusive ==
    [][\A c \in Conns :
          received'[c] # received[c]
              => /\ Len(Filled(c)) <= MAX_BUFFER_SIZE
                    => /\ conn'[c] = "open"
                       /\ Pongs(clientOut'[c]) = Pongs(clientOut[c])
                                                    + Cardinality(PingLines(Filled(c)))
                       /\ IndexOfNewline(buffer'[c]) = 0
                 /\ Len(Filled(c)) > MAX_BUFFER_SIZE
                    => /\ conn'[c] # "open"
                       /\ clientOut'[c] = clientOut[c]]_vars

\* Reached: a socket is open whose buffer was filled to exactly
\* MAX_BUFFER_SIZE units by the chunk that completed a PING line, and the
\* PING was answered.
C29_Witness ==
    \E c \in Conns :
        /\ conn[c] = "open"
        /\ peak[c] = MAX_BUFFER_SIZE
        /\ Len(received[c]) = MAX_BUFFER_SIZE
        /\ Pongs(clientOut[c]) = 1

\* C30: a chunk that completes a line which does not parse, and does not
\* overflow the buffer, leaves the socket open and the session and pending
\* tables as they were; and on every open socket each complete PING line
\* delivered so far has been answered, whatever lines came before it.
C30_MalformedLineIsSkipped ==
    /\ [][\A c \in Conns :
            (/\ received'[c] # received[c]
             /\ Len(Filled(c)) <= MAX_BUFFER_SIZE
             /\ BadLines(Filled(c)) # {})
                => /\ conn'[c] = "open"
                   /\ sessions' = sessions
                   /\ pendingRequests' = pendingRequests
                   /\ Pongs(clientOut'[c]) = Pongs(clientOut[c])
                                                + Cardinality(PingLines(Filled(c)))]_vars
    /\ [](\A c \in Conns :
            conn[c] = "open" => Pongs(clientOut[c]) = Cardinality(PingLines(received[c])))

\* Reached: on an open socket of a registered session a line that does not
\* parse was followed by a PING line, and the PING was answered.
C30_Witness ==
    \E c \in Conns :
        /\ conn[c] = "open"
        /\ \E sid \in DOMAIN sessions : sessions[sid].socket = c
        /\ \E i \in BadLines(received[c]) : \E j \in PingLines(received[c]) : i < j
        /\ Pongs(clientOut[c]) = 1

\* ------------------------------------------------------------ C31
\* C31: once shutdown() has aborted the pending entries, the daemon accepts
\* no new helper connection and registers no new session.
C31_NoAdmissionAfterAbort ==
    [][phase = "stopping"
          => /\ \A c \in Conns : conn[c] = "idle" => conn'[c] = "idle"
             /\ DOMAIN sessions' \subseteq DOMAIN sessions]_vars


\* ------------------------------------------------------------ C32
\* C32: the command a helper spawned the daemon with carries the --daemon
\* flag: it is the executable with the flag alone, or the interpreter with
\* the script path followed by the flag.
C32_SpawnCommandCarriesDaemonFlag ==
    \A h \in Conns :
        spawnCmd[h].cmd # ""
            => \/ spawnCmd[h].args = <<"--daemon">>
               \/ /\ Len(spawnCmd[h].args) = 2
                  /\ spawnCmd[h].args[2] = "--daemon"
                  /\ spawnCmd[h].args[1] # "--daemon"

\* ------------------------------------------------------------ C33
\* C33: pickTabIdForNewSession returns the id of the active tab if a tab is
\* given whose URL is present, is an http or https URL and is not a page of
\* the Chrome web store, and null in every other case.
C33_PicksOnlyScriptableActiveTab ==
    picked # Unpicked
        => picked = IF /\ activeTab.given
                       /\ activeTab.url.present
                       /\ activeTab.url.parses
                       /\ activeTab.url.scheme \in {"http", "https", "HTTPS"}
                       /\ activeTab.url.host # "chromewebstore.google.com"
                       /\ ~(/\ activeTab.url.host \in {"chrome.google.com", "Chrome.Google.com"}
                            /\ activeTab.url.path \in {"/webstore", "/webstore/detail/foo"})
                    THEN activeTab.id
                    ELSE Null

\* Reached: for a web-store page under chrome.google.com, written with
\* capitals, null was returned.
C33_Witness ==
    /\ picked = Null
    /\ activeTab.given
    /\ activeTab.url.scheme = "HTTPS"
    /\ activeTab.url.parses
    /\ activeTab.url.host = "Chrome.Google.com"
    /\ activeTab.url.path = "/webstore/detail/foo"

\* ------------------------------------------------------------ C34
\* C34: the REQUEST frames sent on an extension WebSocket are the forwarded
\* calls of handleRequest in the order in which the calls were handled, and
\* a call forwarded on another WebSocket than an earlier forwarded call was
\* sent after the earlier one's WebSocket had closed.
C34_RequestsSentInAcceptOrder ==
    /\ \A w \in WsIds :
          LET sent == SelectSeq(wsSent[w], LAMBDA f : f.type = "REQUEST")
              forwarded == {k \in DOMAIN calls : calls[k].ws = w}
          IN /\ {sent[i].call : i \in DOMAIN sent} = forwarded
             /\ Len(sent) = Cardinality(forwarded)
             /\ \A i, j \in DOMAIN sent : i < j => sent[i].call < sent[j].call
    /\ \A k1, k2 \in DOMAIN calls :
          (/\ k1 < k2
           /\ calls[k1].ws # Null /\ calls[k2].ws # Null
           /\ calls[k1].ws # calls[k2].ws)
              => wsState[calls[k1].ws] = "closed"

\* Two calls of different sessions were forwarded on one WebSocket.
C34_Witness ==
    \E w \in WsIds : \E i, j \in DOMAIN wsSent[w] :
        /\ i < j
        /\ wsSent[w][i].type = "REQUEST" /\ wsSent[w][j].type = "REQUEST"
        /\ wsSent[w][i].sessionId # wsSent[w][j].sessionId

\* ------------------------------------------------- lines of any peer
\* The 'data' handler of handleClientConnection (lines 445-489) dispatches
\* every complete line, whatever the sessionId it names and whether or not
\* the daemon has ended its side of the socket.  The peer of socket c writes
\* a REQUEST line the way sendViaDaemon does, naming the session sid.
SocketRequest(c, sid) ==
    /\ Tick
    /\ phase # "exited"
    /\ conn[c] \in {"open", "ended"}
    /\ daemonSocket[c] /\ ~exited[c]
    /\ Len(calls) < MaxCalls
    /\ requestIdCounter' = [requestIdCounter EXCEPT ![c] = @ + 1]
    /\ handleRequest(c, requestIdCounter[c] + 1, sid, "action")
    /\ UNCHANGED <<phase, resources, shutdownLog, sessions, extensionConnections, sharedExtensionWs, idleTimer,
                   sessionCounter, socketVars, daemonSocket, sessionId, exited>>

\* The peer of socket c writes a DISCONNECT line naming the session sid.
SocketDisconnect(c, sid) ==
    /\ Tick
    /\ phase # "exited"
    /\ conn[c] \in {"open", "ended"}
    /\ daemonSocket[c] /\ ~exited[c]
    /\ handleDisconnect(c, sid, Now)
    /\ UNCHANGED <<phase, resources, shutdownLog, sharedExtensionWs, sessionCounter, socketVars,
                   daemonSocket, sessionId, requestIdCounter, exited>>

\* The daemon with peers that write any REQUEST and DISCONNECT line; the
\* lines of sendViaDaemon and disconnectFromDaemon are among them.
WireNext ==
    \/ \E c \in Conns : HelperConnect(c)
    \/ \E c \in Conns : HelperRegister(c)
    \/ \E c \in Conns, sid \in SessionIds : SocketRequest(c, sid)
    \/ \E c \in Conns, sid \in SessionIds : SocketDisconnect(c, sid)
    \/ \E c \in Conns : ClientClose(c)
    \/ \E w \in WsIds : WsConnect(w)
    \/ \E w \in WsIds : WsClose(w)
    \/ \E k \in 1..Len(calls), w \in WsIds, ok \in BOOLEAN : ExtRespond(k, w, ok)
    \/ Signal

WireSpec == Init /\ [][WireNext]_vars

\* ------------------------------------------------------------ C35
\* C35: a REQUEST that names a session which is not in the session table is
\* answered on its socket with an error RESPONSE carrying its id, sends no
\* frame to the extension and leaves the pending table as it was.
C35_UnknownSessionIsRefused ==
    [][\A k \in DOMAIN calls' \ DOMAIN calls :
          (calls'[k].sessionId # Null /\ calls'[k].sessionId \notin DOMAIN sessions)
              => /\ wsSent' = wsSent
                 /\ pendingRequests' = pendingRequests
                 /\ clientOut' = [clientOut EXCEPT ![calls'[k].socket] =
                        Append(@, Message("RESPONSE", calls'[k].id, calls'[k].sessionId,
                                          FALSE, Null, "Invalid session"))]]_vars

\* ------------------------------------------------------------ C36
\* C36: a helper that routes its tool calls through the daemon goes on doing
\* so for as long as it lives, holds its daemon socket and has its session;
\* a tool call that failed does not take it out of daemon mode.
C36_FailedCallKeepsDaemonMode ==
    [][\A c \in Conns :
          (/\ useDaemon[c]
           /\ ~exited'[c]
           /\ daemonSocket'[c] /\ sessionId'[c] # Null
           /\ conn'[c] = "open")
              => useDaemon'[c]]_vars

\* ------------------------------------------------------------ C37
\* C37: two REQUEST frames of one session that both found no binding, the
\* later one received while the earlier one was still being handled, do not
\* leave two open tabs that the binder opened for them, and a tab the binder
\* opened for such a request is the tab the session is bound to while it is
\* open and the session has not ended.
C37_OneTabForConcurrentFirstRequests ==
    \A r1, r2 \in DOMAIN reqs :
        (/\ r1 < r2
         /\ reqs[r1].sessionId = reqs[r2].sessionId
         /\ reqs[r1].found = Null /\ reqs[r2].found = Null
         /\ ~reqs[r2].alone
         /\ reqs[r1].fresh \in tabs /\ reqs[r2].fresh \in tabs)
            => /\ reqs[r1].fresh = reqs[r2].fresh
               /\ reqs[r1].sessionId \notin endSeen
                     => /\ HasBinding(reqs[r1].sessionId)
                        /\ BoundTab(reqs[r1].sessionId) = reqs[r1].fresh

\* ------------------------------------------------------------ C38
\* C38: a DISCONNECT line naming session S on a socket other than the one
\* that registered S leaves S in the session table and the pending table as
\* it was, and a REQUEST line naming S on such a socket sends no frame to
\* the extension and makes no pending entry.
C38_OnlyOwnConnectionActsForSession ==
    [][\A c \in Conns : \A sid \in DOMAIN sessions :
          sessions[sid].socket # c
              => /\ SocketDisconnect(c, sid)
                       => /\ sid \in DOMAIN sessions'
                          /\ pendingRequests' = pendingRequests
                 /\ SocketRequest(c, sid)
                       => /\ wsSent' = wsSent
                          /\ pendingRequests' = pendingRequests]_vars

\* ------------------------------------------------------------ C39
\* C39: every entry of the pending table names a session that is in the
\* session table, and every forwarded call whose promise has not settled is
\* the call of the pending entry stored under its request id.
C39_PendingEntriesAreOwnedAndReachable ==
    /\ \A i \in DOMAIN pendingRequests :
          pendingRequests[i].sessionId \in DOMAIN sessions
    /\ \A k \in DOMAIN calls :
          (calls[k].ws # Null /\ calls[k].result = "pending")
              => /\ PendingHas(pendingRequests, calls[k].id)
                 /\ PendingGet(pendingRequests, calls[k].id).call = k

\* ------------------------------------- daemon and side panel on one uplink
\* The side panel's WebSocket is extension WebSocket 1 of the daemon.  The
\* frames the daemon sent on it reach ws.onmessage of the panel in order,
\* while the panel's end is open; FramesHandled counts the frames handled so far.
FramesHandled == Len(reqs) + Cardinality(endSeen) + Cardinality(startSeen)

\* The next frame ws.onmessage runs for is a frame of this type for session s.
Arrives(type, s) ==
    /\ panelWs = "open"
    /\ FramesHandled < Len(wsSent[1])
    /\ wsSent[1][FramesHandled + 1].type = type
    /\ wsSent[1][FramesHandled + 1].sessionId = s

\* ws.onopen of the panel, once the daemon has accepted the connection.
LinkWsOpen == wsState[1] # "none" /\ PanelWsOpen

LinkSessionStart(s) == Arrives("SESSION_START", s) /\ RecvSessionStart(s)

LinkRequest(s) == Arrives("REQUEST", s) /\ PanelRequest(s, Null)

LinkSessionEnd(s) == Arrives("SESSION_END", s) /\ RecvSessionEnd(s)

\* The daemon accepts the connection the panel's connect() opened; a helper
\* makes as many tool calls as the panel has frames for.
LinkNext ==
    \/ \E c \in 1..NumLinked : HelperConnect(c)
    \/ \E c \in 1..NumLinked : HelperRegister(c)
    \/ \E c \in 1..NumLinked : Len(calls) < MaxFrames /\ HelperRequest(c)
    \/ \E c \in 1..NumLinked : HelperDisconnect(c)
    \/ \E c \in 1..NumLinked : ClientClose(c)
    \/ panelWs = "connecting" /\ WsConnect(1)
    \/ WsClose(1)
    \/ LinkWsOpen
    \/ PanelWsClose
    \/ \E s \in SessionIds : LinkSessionStart(s)
    \/ \E s \in SessionIds : LinkRequest(s)
    \/ \E s \in SessionIds : LinkSessionEnd(s)
    \/ \E r \in 1..Len(reqs) : TabCreated(r)
    \/ \E r \in 1..Len(reqs) : TabChecked(r)
    \/ \E r \in 1..Len(reqs) : TabRecreated(r)
    \/ \E r \in 1..Len(reqs) : ForwardToExecutor(r)
    \/ \E r \in 1..Len(reqs) : ExecutorResponds(r)
    \/ \E t \in removedEvents : OnRemoved(t)
    \/ \E k \in 1..Len(cleanups) : TabRemoved(k)

LinkSpec == Init /\ [][LinkNext]_vars

\* The callbacks of the panel are tasks of its event loop: a frame that has
\* arrived is handled, and a promise of the tabs API or of the executor
\* settles, and onclose fires once the daemon's end of the connection is
\* closed.  What the helpers and the network do is not forced.
FairLinkSpec ==
    /\ LinkSpec
    /\ WF_vars(LinkWsOpen)
    /\ WF_vars(wsState[1] = "closed" /\ PanelWsClose)
    /\ WF_vars(\E s \in SessionIds : LinkSessionStart(s))
    /\ WF_vars(\E s \in SessionIds : LinkRequest(s))
    /\ WF_vars(\E s \in SessionIds : LinkSessionEnd(s))
    /\ WF_vars(\E r \in 1..Len(reqs) : TabCreated(r))
    /\ WF_vars(\E r \in 1..Len(reqs) : TabChecked(r))
    /\ WF_vars(\E r \in 1..Len(reqs) : TabRecreated(r))
    /\ WF_vars(\E r \in 1..Len(reqs) : ForwardToExecutor(r))
    /\ WF_vars(\E r \in 1..Len(reqs) : ExecutorResponds(r))
    /\ WF_vars(\E t \in removedEvents : OnRemoved(t))
    /\ WF_vars(\E k \in 1..Len(cleanups) : TabRemoved(k))

\* ------------------------------------------------------------ C40
\* C40: once a session has been removed from the daemon's session table,
\* the side panel eventually holds no binding for it.
C40_TerminatedSessionLosesBinding ==
    \A s \in SessionIds :
        (s <= sessionCounter /\ s \notin DOMAIN sessions) ~> ~HasBinding(s)

====
